---- MODULE Spec2Model ----
(***************************************************************************)
(* Model of the email-to-scheduled-task pipeline of Sandy bot:             *)
(*   sandybot/database.py     crear_tarea_programada and the tables        *)
(*   sandybot/email_utils.py  procesar_correo_a_tarea and its extractors   *)
(*                                                                         *)
(* The store is the committed content of the relational database.  Each    *)
(* worker stands for one caller holding its own SQLAlchemy session; a      *)
(* worker's steps are the statements between which the database lets       *)
(* another session act (READ COMMITTED): a query, a commit.                *)
(***************************************************************************)
EXTENDS Integers, Sequences, FiniteSets, Bags, TLC

\* Python None in a string column / an integer column (a NULL in the store).
None == "None"
NULLID == 0

\* Bound: calls (of crear_tarea_programada or of procesar_correo_a_tarea)
\* started in one behaviour.
MaxLlamadas == 2
MaxConsultas == 3
MaxInstancias == 2
MaxAltas == 3
MaxDepuraciones == 2
MaxUpdates == 3

Workers == {"w1", "w2"}

----------------------------------------------------------------------------
\* Inputs of crear_tarea_programada

\* The values of the five mutable columns, as one call passes them.
Avisos ==
  { [fecha_inicio |-> 1, fecha_fin |-> 2, tipo_tarea |-> "Mantenimiento",
     tiempo_afectacion |-> None, descripcion |-> None],
    [fecha_inicio |-> 3, fecha_fin |-> 4, tipo_tarea |-> "Emergencia",
     tiempo_afectacion |-> "2h", descripcion |-> "corte" ] }

ServicioIds == {1, 2, 3}

\* Service-id lists a caller passes: empty, overlapping, with a repetition.
ListasServicios == { <<>>, <<1, 2>>, <<2, 3, 2>> }

\* (carrier_id, id_interno) as callers pass them: two complete keys, and one
\* key lacking each part.
Claves ==
  { [carrier_id |-> 1, id_interno |-> "ID1"],
    [carrier_id |-> 2, id_interno |-> "ID1"],
    [carrier_id |-> 1, id_interno |-> None],
    [carrier_id |-> NULLID, id_interno |-> "ID1"] }

Argumentos ==
  { [ aviso |-> av, servicios |-> ls,
      carrier_id |-> k.carrier_id, id_interno |-> k.id_interno ] :
    av \in Avisos, ls \in ListasServicios, k \in Claves }

NoArgs == [ aviso |-> None ]

\* No row loaded: the query returned None (or was not made).
NoTarea == [ id |-> NULLID ]

----------------------------------------------------------------------------
\* Emails: inputs of procesar_correo_a_tarea

\* A service identifier is a string, kept as its sequence of characters.
Digitos == {"0", "1", "2", "3", "4", "5", "6", "7", "8", "9"}
DigitosEnOrden == <<"0", "1", "2", "3", "4", "5", "6", "7", "8", "9">>
ToCaracter(n) == DigitosEnOrden[n + 1]
Id123456 == <<"1", "2", "3", "4", "5", "6">>
Id1234 == <<"1", "2", "3", "4">>
Id76208 == <<"7", "6", "2", "0", "8">>
IdCRT000123 == <<"C", "R", "T", "-", "0", "0", "0", "1", "2", "3">>
IdABC000123 == <<"A", "B", "C", "-", "0", "0", "0", "1", "2", "3">>
IdSRV9 == <<"S", "R", "V", "9">>
IdSRV7 == <<"S", "R", "V", "7">>
IdNOC == <<"N", "O", "C">>

\* A date as written in an email: the strptime format its text has (or
\* "iso" for a text only datetime.fromisoformat reads, "ninguno" for a text
\* nothing reads), the instant it denotes and the runs of digits in it.
Fecha(fmt, t) ==
  [ formato |-> fmt, instante |-> t,
    numeros |-> IF fmt = "ninguno" THEN <<>>
                ELSE << <<"0", "1">>, <<"0", ToCaracter(t)>> >> ]

\* A text is a sequence of lines; a line is the label that the searches of
\* the extractors recognise on it and the text captured after the label.
Linea(e, v) == [etiqueta |-> e, valor |-> v]

LineaFrom(usuario, dominio) ==
  Linea("from", [usuario |-> usuario, dominio |-> dominio])

\* Fast-path email with sender and internal id: complete (carrier, id) key.
CorreoCompleto ==
  << Linea("subject", "Aviso de mantenimiento"),
     LineaFrom("lumen", "carrier.com"),
     Linea("ref", "ID1"),
     Linea("inicio", Fecha("%d/%m/%Y %H:%M", 1)),
     Linea("fin", Fecha("%d/%m/%Y %H:%M", 2)),
     Linea("servicios", <<Id123456, Id1234, IdSRV9>>) >>

\* Fast-path email without sender or internal id, with another window.
CorreoSinClave ==
  << Linea("inicio", Fecha("%Y-%m-%d %H:%M", 3)),
     Linea("fin", Fecha("%Y-%m-%d %H:%M", 4)),
     Linea("servicios", <<IdCRT000123, Id76208>>) >>

\* No "servicios" line: the fast path fails.
CorreoSinServicios ==
  << LineaFrom("noc", "telxius.com"),
     Linea("ref", "SWX0000001"),
     Linea("inicio", Fecha("%Y-%m-%d %H:%M", 1)),
     Linea("fin", Fecha("%Y-%m-%d %H:%M", 2)),
     Linea("texto", "trabajos en la red") >>

\* The three fields come after the legal notice, which the cleaning cuts.
CorreoCortado ==
  << Linea("ref", "ID1"),
     Linea("carrier", "lumen"),
     Linea("vacia", ""),
     Linea("aviso legal", "este correo es privado"),
     Linea("inicio", Fecha("%d/%m %H:%M", 1)),
     Linea("fin", Fecha("%d/%m %H:%M", 2)),
     Linea("servicios", <<Id123456>>) >>

Textos == {CorreoCompleto, CorreoSinClave, CorreoSinServicios, CorreoCortado}

Correos ==
  [ texto : Textos, cliente_nombre : {"ACME"}, carrier_nombre : {None, "Telxius"} ]

NoCorreo == [ texto |-> <<>> ]

\* Answers of the completion service: text without a brace-delimited part,
\* a JSON object the schema rejects, JSON objects it accepts, and a failure
\* of the call itself.
DatosGPT ==
  { [inicio |-> Fecha("%Y-%m-%d %H:%M", 1), fin |-> Fecha("%Y-%m-%d %H:%M", 2),
     tipo |-> "Actualizacion de equipos", afectacion |-> "2h",
     descripcion |-> "corte", ids |-> <<Id123456, IdSRV9, IdABC000123, IdNOC, IdSRV7>>],
    [inicio |-> Fecha("%Y-%m-%d %H:%M", 2), fin |-> Fecha("ninguno", 0),
     tipo |-> "", afectacion |-> None,
     descripcion |-> None, ids |-> <<>>],
    [inicio |-> Fecha("%Y-%m-%d %H:%M", 2), fin |-> Fecha("iso", 2),
     tipo |-> "", afectacion |-> None,
     descripcion |-> None, ids |-> <<>>],
    [inicio |-> Fecha("%d/%m/%Y %H:%M:%S", 2), fin |-> Fecha("%d/%m %H:%M:%S", 1),
     tipo |-> "", afectacion |-> None,
     descripcion |-> None, ids |-> <<>>] }

Respuestas ==
  { [clase |-> "texto"], [clase |-> "json invalido"], [clase |-> "excepcion"] }
  \cup { [clase |-> "json", datos |-> d] : d \in DatosGPT }

NoDatos == [ tipo |-> None ]

\* No answer received yet.
SinRespuesta == [ clase |-> None ]

\* No row.
NoFila == [ id |-> NULLID ]

\* No call of crear_camara / crear_reclamo in progress.
NoAlta == [ tabla |-> None ]

\* Arguments of crear_camara / crear_reclamo.
NombresCamara == { "Camara A", "Camara B" }
NumerosReclamo == { "R1", "R2" }
ServiciosAlta == { 1, 2 }

\* Rows of reclamos stored before uix_reclamo_unico and the present code:
\* two of service 1 without number (NULLs never collide).
ReclamosPrevios ==
  { [id |-> 1, servicio_id |-> 1, numero |-> None],
    [id |-> 2, servicio_id |-> 1, numero |-> None] }

\* Arguments of agregar_destinatario / eliminar_destinatario: addresses,
\* client ids (2 is the id of no client) and the carrier (None: general list).
Direcciones == { "a@x.com", "b@x.com", "c@x.com" }
ClientesDest == { 1, 2 }
CarriersDest == { "Telxius" }
ClienteACME == [ id |-> 1, nombre |-> "ACME" ]

\* Both columns empty (NULL, or a carrier without key, reads as []).
SinDestinatarios == [ general |-> <<>>, carrier |-> [k \in CarriersDest |-> <<>>] ]

\* Updates voice_handler receives: with or without message and voice, the
\* download working or not, and what the transcription service gives.
UpdatesVoz ==
  { [mensaje |-> FALSE, voice |-> FALSE, descarga |-> TRUE,
     transcripcion |-> [clase |-> "texto", text |-> <<"s", "i">>]],
    [mensaje |-> TRUE, voice |-> FALSE, descarga |-> TRUE,
     transcripcion |-> [clase |-> "texto", text |-> <<"s", "i">>]] }
  \cup
  { [mensaje |-> TRUE, voice |-> TRUE, descarga |-> d, transcripcion |-> t] :
      d \in BOOLEAN,
      t \in { [clase |-> "texto", text |-> <<"s", "i">>],
              [clase |-> "texto", text |-> <<" ", "s", "i", " ">>],
              [clase |-> "texto", text |-> <<" ">>],
              [clase |-> "excepcion", text |-> <<>>] } }

\* Prompts of direct calls of consultar_gpt (a chat message).
Mensaje(texto) == [ n |-> 0, correo |-> texto ]
Mensajes == { Mensaje(<<"hola">>), Mensaje(<<"chau">>) }

\* No direct call made yet.
SinConsulta ==
  [ n |-> 0, prompt |-> Mensaje(<<>>), cache |-> FALSE,
    respuesta |-> SinRespuesta, instancia |-> 0 ]

\* Mutant of CargarCache: a new instance starts with no answers.
CargarCache_Vacia(archivo) == {}

\* A new GPTHandler instance reads the answers GPT_CACHE_FILE holds.
CargarCache(archivo) == archivo

\* The answers the instance holds are written to GPT_CACHE_FILE.
GuardarCache(memoria) == memoria

\* NULL in the id_carrier column of servicios.
SinIdCarrier == <<"NULL">>

\* The service catalogue and the carriers the store holds at the start.
Servicio(id, codigo) ==
  [ id |-> id, id_carrier |-> codigo, carrier_id |-> NULLID, carrier |-> None ]

ServiciosIniciales ==
  { Servicio(1, IdCRT000123), Servicio(2, Id123456), Servicio(3, Id76208),
    Servicio(123, SinIdCarrier),
    [Servicio(123456, SinIdCarrier) EXCEPT !.carrier_id = 2, !.carrier = "TELXIUS"],
    Servicio(4, <<"7">>), Servicio(76208, SinIdCarrier) }

CarriersIniciales ==
  { [id |-> 1, nombre |-> "lumen"], [id |-> 2, nombre |-> "TELXIUS"] }

----------------------------------------------------------------------------
VARIABLES
  tareas,               \* table tareas_programadas: set of rows
  seq_tareas,           \* its id sequence (last value drawn)
  tareas_servicio,      \* table tareas_servicio: bag of rows (tarea_id, servicio_id)
  servicios_pendientes, \* table servicios_pendientes: bag of rows (tarea_id, id_carrier)
  servicios,            \* table servicios: set of rows
  clientes,             \* table clientes: set of rows
  carriers,             \* table carriers: set of rows
  gpt_llamadas,         \* requests the external completion service received
  gpt_cache,            \* answers kept in GPT_CACHE_FILE: set of (prompt, respuesta)
  gpt_memoria,          \* answers the live GPTHandler instance holds
  instancia,            \* number of the live GPTHandler instance
  consulta,             \* the last direct call of consultar_gpt
  camaras,              \* table camaras: set of rows
  seq_camaras,          \* its id sequence (last value drawn)
  reclamos,             \* table reclamos: set of rows
  seq_reclamos,         \* its id sequence (last value drawn)
  pc_alta,              \* per worker: position in crear_camara / crear_reclamo
  alta,                 \* per worker: the call in progress
  resultado,            \* per worker: the row the call returns
  n_altas,              \* calls of crear_camara / crear_reclamo started
  depurado,             \* runs of depurar_reclamos_duplicados and the last return
  destinatarios,        \* columns destinatarios / destinatarios_carrier per client id
  ultima,               \* the last call of agregar_ / eliminar_destinatario
  updates,              \* updates voice_handler was called with, in order
  voz_pc,               \* position of voice_handler in the last of them
  eventos,              \* calls voice_handler made: message_handler and replies
  esquema,              \* unique constraints the task tables have
  migracion,            \* how ensure_servicio_columns ended on the task tables
  pc,                   \* per worker: where its call stands
  arg,                  \* per worker: the arguments of crear_tarea_programada
  encontrada,           \* per worker: the row the query loaded, or NoTarea
  tarea,                \* per worker: id of the task row after the first commit
  creada,               \* per worker: the 'creada' flag
  borradas,             \* per worker: link rows the DELETE of its call removed
  correo,               \* per worker: the arguments of procesar_correo_a_tarea
  datos,                \* per worker: the extracted record, or NoDatos
  intentos,             \* per worker: consultar_gpt calls of the current run
  error,                \* per worker: message of the ValueError raised, or None
  respuesta,            \* per worker: the last answer of consultar_gpt
  pendientes,           \* per worker: the list ids_pendientes of its run
  registro,             \* per worker: the identifiers its run wrote to the log
  llamadas              \* calls started so far

upsert == <<tareas, seq_tareas, tareas_servicio>>
catalogo == <<servicios_pendientes, servicios, clientes, carriers>>
store == <<upsert, catalogo>>
gpt == <<gpt_llamadas, gpt_cache, gpt_memoria>>
asistente == <<instancia, consulta>>
registros == <<camaras, seq_camaras, reclamos, seq_reclamos>>
altas == <<pc_alta, alta, resultado, n_altas>>
correos == <<destinatarios, ultima>>
voz == <<updates, voz_pc, eventos>>
migraciones == <<esquema, migracion>>
otros == <<asistente, registros, altas, depurado, correos, voz, migraciones>>
extraccion == <<correo, datos, intentos, error, respuesta, pendientes, registro>>
vars == <<tareas, seq_tareas, tareas_servicio, servicios_pendientes, servicios,
          clientes, carriers, gpt_llamadas, gpt_cache, gpt_memoria, pc, arg, encontrada,
          tarea, creada, borradas, correo, datos, intentos, error, respuesta,
          pendientes, registro, llamadas, otros>>

----------------------------------------------------------------------------
\* Python truthiness of an optional integer / an optional string.
TruthyInt(v) == v # NULLID
TruthyStr(v) == v \notin {None, ""}

\* list(dict.fromkeys(s)): order-preserving de-duplication, first occurrence kept.
RECURSIVE Dedup(_)
Dedup(s) ==
  IF s = <<>> THEN <<>>
  ELSE LET r == Dedup(SubSeq(s, 1, Len(s) - 1))
           x == s[Len(s)]
       IN IF \E i \in 1..Len(r) : r[i] = x THEN r ELSE Append(r, x)

Rango(s) == { s[i] : i \in 1..Len(s) }

\* session.query(TareaProgramada).filter(carrier_id ==, id_interno ==): the rows.
TareasDeClave(T, c, i) == { r \in T : r.carrier_id = c /\ r.id_interno = i }

\* Mutant of ChocaUixCarrierInterno: the table lacks the unique constraint.
ChocaUixCarrierInterno_Ausente(T, fila) == FALSE

\* UNIQUE (carrier_id, id_interno): a new row collides with a stored one.
\* Rows with a NULL in the pair never collide (SQL NULLs are distinct).
ChocaUixCarrierInterno(T, fila) ==
  /\ fila.carrier_id # NULLID
  /\ fila.id_interno # None
  /\ TareasDeClave(T, fila.carrier_id, fila.id_interno) # {}

\* The TareaProgramada(...) object of the insert branch.
NuevaTarea(id, a) ==
  [ id |-> id,
    fecha_inicio |-> a.aviso.fecha_inicio,
    fecha_fin |-> a.aviso.fecha_fin,
    tipo_tarea |-> a.aviso.tipo_tarea,
    carrier_id |-> a.carrier_id,
    tiempo_afectacion |-> a.aviso.tiempo_afectacion,
    descripcion |-> a.aviso.descripcion,
    id_interno |-> a.id_interno ]

\* Mutant of TareaActualizada: the update branch leaves descripcion alone.
TareaActualizada_SinDescripcion(r, a) ==
  [ r EXCEPT !.fecha_inicio = a.aviso.fecha_inicio,
             !.fecha_fin = a.aviso.fecha_fin,
             !.tipo_tarea = a.aviso.tipo_tarea,
             !.tiempo_afectacion = a.aviso.tiempo_afectacion ]

\* The five assignments of the update branch (lines 842-846).
TareaActualizada(r, a) ==
  [ r EXCEPT !.fecha_inicio = a.aviso.fecha_inicio,
             !.fecha_fin = a.aviso.fecha_fin,
             !.tipo_tarea = a.aviso.tipo_tarea,
             !.tiempo_afectacion = a.aviso.tiempo_afectacion,
             !.descripcion = a.aviso.descripcion ]

\* tareas_servicio rows of one task, as a bag.
RelacionesDe(L, t) ==
  [ r \in { x \in BagToSet(L) : x.tarea_id = t } |-> L[r] ]

\* relaciones = [TareaServicio(tarea_id, servicio_id=sid) for sid in servicios]
\* One row per element of the list, repetitions included.
RECURSIVE Relaciones(_, _)
Relaciones(t, servs) ==
  IF servs = <<>> THEN EmptyBag
  ELSE SetToBag({[tarea_id |-> t, servicio_id |-> Head(servs)]})
       (+) Relaciones(t, Tail(servs))

\* UNIQUE (tarea_id, servicio_id): some new row collides with a stored one.
ChocaUixTareaServicio(L, nuevas) ==
  \E r \in BagToSet(nuevas) : CopiesIn(r, L) + CopiesIn(r, nuevas) > 1

----------------------------------------------------------------------------
\* Extraction (email_utils.py)

Min(S) == CHOOSE x \in S : \A y \in S : x <= y

\* _limpiar_correo: drops blank lines and stops at the first legal notice.
RECURSIVE _limpiar_correo(_)
_limpiar_correo(texto) ==
  IF texto = <<>> THEN <<>>
  ELSE IF Head(texto).etiqueta = "vacia" THEN _limpiar_correo(Tail(texto))
  ELSE IF Head(texto).etiqueta = "aviso legal" THEN <<>>
  ELSE <<Head(texto)>> \o _limpiar_correo(Tail(texto))

\* re.search of a labelled field: the first line carrying the label.
Lineas(texto, e) == { i \in 1..Len(texto) : texto[i].etiqueta = e }
Hay(texto, e) == Lineas(texto, e) # {}
Primera(texto, e) == texto[Min(Lineas(texto, e))]

\* str.strip() non-empty for an identifier token.
NoVacio(i) == i # <<>>

\* _extraer_por_regex: a record only when inicio, fin and servicios are all
\* found; NoDatos (None) otherwise.
_extraer_por_regex(texto) ==
  IF ~(Hay(texto, "inicio") /\ Hay(texto, "fin") /\ Hay(texto, "servicios"))
  THEN NoDatos
  ELSE [ inicio |-> Primera(texto, "inicio").valor,
         fin |-> Primera(texto, "fin").valor,
         tipo |-> "Mantenimiento",
         afectacion |-> None,
         descripcion |-> None,
         ids |-> SelectSeq(Primera(texto, "servicios").valor, NoVacio) ]

\* carrier_map: r".*telxius.*" searched in the lower-cased sender.
detectar_carrier_por_remitente(remitente) ==
  IF remitente.usuario = "telxius" \/ remitente.dominio = "telxius.com"
  THEN "TELXIUS" ELSE None

\* str.upper() of the carrier names of the model.
Upper(n) ==
  CASE n = "Telxius" -> "TELXIUS"
    [] n = "lumen" -> "LUMEN"
    [] OTHER -> n

EsDigito(c) == c \in Digitos
\* Characters that are not word characters (\W) in the identifiers.
EsPalabra(c) == c \notin {"-", " ", "/", ":", "."}

\* str.isdigit(): non-empty and only digits.
isdigit(i) == i # <<>> /\ \A k \in 1..Len(i) : EsDigito(i[k])

\* The maximal runs of word characters of a string, in order.
RECURSIVE Palabras(_, _)
Palabras(i, actual) ==
  IF i = <<>> THEN (IF actual = <<>> THEN <<>> ELSE <<actual>>)
  ELSE IF EsPalabra(Head(i)) THEN Palabras(Tail(i), Append(actual, Head(i)))
  ELSE (IF actual = <<>> THEN <<>> ELSE <<actual>>) \o Palabras(Tail(i), <<>>)

\* re.findall(r"\b\d+\b", .) on one string: its all-digit words.
NumerosDe(i) == SelectSeq(Palabras(i, <<>>), isdigit)

\* re.fullmatch(r"CRT-\d{6}", i)
EsCRT(i) ==
  /\ Len(i) = 10
  /\ SubSeq(i, 1, 4) = <<"C", "R", "T", "-">>
  /\ \A k \in 5..10 : EsDigito(i[k])

\* re.findall(r"CRT-\d{6}", .) on one string.
RECURSIVE CRTsDe(_)
CRTsDe(i) ==
  IF Len(i) < 10 THEN <<>>
  ELSE IF EsCRT(SubSeq(i, 1, 10))
       THEN <<SubSeq(i, 1, 10)>> \o CRTsDe(SubSeq(i, 11, Len(i)))
       ELSE CRTsDe(Tail(i))

\* Flattening of a sequence of sequences.
RECURSIVE Aplanar(_)
Aplanar(ss) == IF ss = <<>> THEN <<>> ELSE Head(ss) \o Aplanar(Tail(ss))

\* re.findall(srv_pat, texto): the matches of every line, in text order.
RECURSIVE HallarServicios(_, _)
HallarServicios(texto, telxius) ==
  IF texto = <<>> THEN <<>>
  ELSE LET l == Head(texto)
           aqui ==
             IF l.etiqueta = "servicios"
             THEN Aplanar([k \in 1..Len(l.valor) |->
                    IF telxius THEN CRTsDe(l.valor[k]) ELSE NumerosDe(l.valor[k])])
             ELSE IF l.etiqueta \in {"inicio", "fin"} /\ ~telxius
             THEN l.valor.numeros
             ELSE <<>>
       IN aqui \o HallarServicios(Tail(texto), telxius)

\* id_pat: r"SWX\d{7}" for TELXIUS, r"ID\w+" otherwise, on a reference token.
EsIdInterno(tok, telxius) ==
  IF telxius THEN tok \in {"SWX0000001"} ELSE tok \in {"ID1", "ID2"}

\* _detectar_datos_correo: carrier, id_interno, ids and tipo sniffed from
\* the text.
_detectar_datos_correo(texto) ==
  LET carrier ==
        IF Hay(texto, "from")
        THEN LET rem == Primera(texto, "from").valor
             IN IF detectar_carrier_por_remitente(rem) # None
                THEN detectar_carrier_por_remitente(rem)
                ELSE rem.usuario
        ELSE None
      telxius == carrier # None /\ Upper(carrier) = "TELXIUS"
      refs == { i \in Lineas(texto, "ref") : EsIdInterno(texto[i].valor, telxius) }
  IN [ carrier |-> carrier,
       id_interno |-> IF refs = {} THEN None ELSE texto[Min(refs)].valor,
       ids |-> HallarServicios(texto, telxius),
       tipo |-> IF texto # <<>> /\ Head(texto).etiqueta = "subject"
                   /\ Head(texto).valor = "EMERGENCY"
                THEN "Emergencia" ELSE "Programada" ]

\* The two prompts, as far as the answer cache tells them apart.
Prompt(texto_limpio) == [n |-> 1, correo |-> texto_limpio]
Prompt2(texto_limpio) == [n |-> 2, correo |-> texto_limpio]

\* Mutant of CacheDelCorreo: the calls leave the answer cache on.
CacheDelCorreo_Activa == TRUE

\* The cache argument of both consultar_gpt calls of procesar_correo_a_tarea
\* (cache=False, lines 504 and 516).
CacheDelCorreo == FALSE

\* re.search(r"\{.*\}", respuesta, re.S) finds a match.
TieneJSON(r) == r.clase \in {"json", "json invalido"}

\* gpt.procesar_json_response(match, esquema): the parsed object when it is
\* valid JSON with inicio, fin, tipo and ids; nothing usable otherwise.
procesar_json_response(r) == IF r.clase = "json" THEN r.datos ELSE NoDatos

\* _parse_fecha: the six strptime formats in order, then fromisoformat.
FormatosFecha ==
  << "%Y-%m-%d %H:%M", "%Y-%m-%d %H:%M:%S", "%d/%m/%Y %H:%M",
     "%d/%m/%Y %H:%M:%S", "%d/%m %H:%M", "%d/%m %H:%M:%S" >>

FechaValida(valor) ==
  \/ \E k \in 1..Len(FormatosFecha) : valor.formato = FormatosFecha[k]
  \/ valor.formato = "iso"

_parse_fecha(valor) == valor.instante

\* Mutant of FechasEnOrden: a window that ends when it starts is accepted.
FechasEnOrden_IgualPermitido(inicio, fin) == inicio <= fin

\* Line 555 passes: not (inicio >= fin).
FechasEnOrden(inicio, fin) == ~(inicio >= fin)

----------------------------------------------------------------------------
\* Identifier filter and resolution (email_utils.py, lines 559-637)

\* ids_brutos: the extractor's identifiers, then the sniffed ones that are
\* not among them.
NoEsta(x, lista) == \A k \in 1..Len(lista) : lista[k] # x

Fusionar(ids, detectados) ==
  LET Falta(x) == NoEsta(x, ids) IN ids \o SelectSeq(detectados, Falta)

EsTelxius(carrier_nombre) ==
  TruthyStr(carrier_nombre) /\ Upper(carrier_nombre) = "TELXIUS"

\* Mutant of Conserva: the strict-format branch is missing and every carrier
\* gets the short-number rule.
Conserva_SinFormato(i, carrier_nombre) ==
  /\ ~(Len(i) = 4 /\ isdigit(i))
  /\ ~(isdigit(i) /\ Len(i) < 6)

\* Mutant of Conserva: only the four-digit rule is applied to the other
\* carriers.
Conserva_SoloCuatro(i, carrier_nombre) ==
  IF EsTelxius(carrier_nombre)
  THEN EsCRT(i)
  ELSE ~(Len(i) = 4 /\ isdigit(i))

\* The identifier passes the filter of lines 564-580.
Conserva(i, carrier_nombre) ==
  IF EsTelxius(carrier_nombre)
  THEN EsCRT(i)
  ELSE /\ ~(Len(i) = 4 /\ isdigit(i))
       /\ ~(isdigit(i) /\ Len(i) < 6)

Filtrados(ids_brutos, carrier_nombre) ==
  LET Pasa(i) == Conserva(i, carrier_nombre) IN SelectSeq(ids_brutos, Pasa)

Descartados(ids_brutos, carrier_nombre) ==
  LET Cae(i) == ~Conserva(i, carrier_nombre) IN SelectSeq(ids_brutos, Cae)

\* int(ident) for a string of digits.
RECURSIVE int(_)
int(i) ==
  IF i = <<>> THEN 0
  ELSE 10 * int(SubSeq(i, 1, Len(i) - 1))
       + (CHOOSE n \in 0..9 : DigitosEnOrden[n + 1] = i[Len(i)])

\* re.sub(r"\D", "", ident)
SoloDigitos(i) == SelectSeq(i, EsDigito)

\* session.get(Servicio, int(x)) when x.isdigit(), then the query by
\* id_carrier: the id of the service found, NULLID when none.
Buscar(S, x) ==
  LET porPK == IF isdigit(x) THEN { r \in S : r.id = int(x) } ELSE {}
      porCodigo == { r \in S : r.id_carrier = x }
  IN IF porPK # {} THEN (CHOOSE r \in porPK : TRUE).id
     ELSE IF porCodigo # {} THEN Min({ r.id : r \in porCodigo })
     ELSE NULLID

\* Mutant of Resolver: no retry with the digits of the identifier.
Resolver_SinDigitos(S, ident) == Buscar(S, ident)

\* The resolution of one identifier, lines 615-632.
Resolver(S, ident) ==
  IF Buscar(S, ident) # NULLID THEN Buscar(S, ident)
  ELSE IF SoloDigitos(ident) # <<>> THEN Buscar(S, SoloDigitos(ident))
  ELSE NULLID

\* servicios (as ids) and ids_pendientes after the loop of lines 614-637.
ServiciosResueltos(S, ids) ==
  LET Encuentra(i) == Resolver(S, i) # NULLID
      hallados == SelectSeq(ids, Encuentra)
  IN [k \in 1..Len(hallados) |-> Resolver(S, hallados[k])]

\* Mutant of IdsPendientes: every identifier is reported as pending, resolved
\* or not.
IdsPendientes_Todos(S, ids) == ids

IdsPendientes(S, ids) ==
  LET Falla(i) == Resolver(S, i) = NULLID IN SelectSeq(ids, Falla)

\* Nothing logged yet.
NoRegistro == [ descartados |-> <<>>, no_encontrados |-> <<>> ]

\* Mutant of RegistroDe: the discarded identifiers are not logged.
RegistroDe_SinDescartados(brutos, nombre, S) ==
  [ descartados |-> <<>>,
    no_encontrados |-> IdsPendientes(S, Filtrados(brutos, nombre)) ]

\* What the run writes to the log about its identifiers: the discarded
\* ones (lines 589-590) and each one not found (line 636).
RegistroDe(brutos, nombre, S) ==
  [ descartados |-> Descartados(brutos, nombre),
    no_encontrados |-> IdsPendientes(S, Filtrados(brutos, nombre)) ]

\* What procesar_correo_a_tarea derives from its arguments and from datos
\* before it touches the store (lines 450-467 and 558-591).
CarrierNombre(c) ==
  LET limpio == _limpiar_correo(c.texto)
      det == _detectar_datos_correo(limpio)
  IN IF TruthyStr(c.carrier_nombre) THEN c.carrier_nombre
     ELSE IF TruthyStr(det.carrier) THEN det.carrier
     ELSE IF Hay(limpio, "carrier") THEN Primera(limpio, "carrier").valor
     ELSE None

IdsBrutos(c, d) == Fusionar(d.ids, _detectar_datos_correo(_limpiar_correo(c.texto)).ids)

Tipo(c, d) ==
  IF TruthyStr(d.tipo) THEN d.tipo
  ELSE _detectar_datos_correo(_limpiar_correo(c.texto)).tipo

\* The next primary key of a table with rows T.
NuevoId(T) == IF T = {} THEN 1 ELSE (CHOOSE m \in { r.id : r \in T } :
                                        \A r \in T : r.id <= m) + 1

\* Mutant of ConNombre: a row is created without looking the name up.
ConNombre_SiempreCrea(T, nombre) == T \cup {[id |-> NuevoId(T), nombre |-> nombre]}

\* Lookup-or-create by name (lines 594-610): the table afterwards.
ConNombre(T, nombre) ==
  IF \E r \in T : r.nombre = nombre THEN T
  ELSE T \cup {[id |-> NuevoId(T), nombre |-> nombre]}

IdDeNombre(T, nombre) == (CHOOSE r \in T : r.nombre = nombre).id

\* The unique constraints init_db leaves in place on the task tables.
Restricciones == { "uix_carrier_interno", "uix_tarea_servicio" }

\* The state outside the task tables at the start: the first GPTHandler
\* instance, no addresses, no update, no camera, the rows R in reclamos,
\* and the constraints E on the task tables.
InitOtros(E, R) ==
  /\ instancia = 1
  /\ consulta = SinConsulta
  /\ destinatarios = [c \in ClientesDest |-> SinDestinatarios]
  /\ ultima = [op |-> None]
  /\ updates = <<>>
  /\ voz_pc = "idle"
  /\ eventos = <<>>
  /\ camaras = {}
  /\ seq_camaras = 0
  /\ reclamos = R
  /\ seq_reclamos = Cardinality(R)
  /\ pc_alta = [w \in Workers |-> "idle"]
  /\ alta = [w \in Workers |-> NoAlta]
  /\ resultado = [w \in Workers |-> NoFila]
  /\ n_altas = 0
  /\ depurado = [n |-> 0, eliminados |-> 0]
  /\ esquema = E
  /\ migracion = None

----------------------------------------------------------------------------
\* A task reported before the behaviour starts, with its links: the store
\* outlives the program, so a run may begin with rows in it.
TareaPrevia ==
  [ id |-> 1, fecha_inicio |-> 1, fecha_fin |-> 2, tipo_tarea |-> "Mantenimiento",
    carrier_id |-> 1, tiempo_afectacion |-> None, descripcion |-> None,
    id_interno |-> "ID1" ]

\* The task tables at the start.
InitTareas ==
  /\ \/ /\ tareas = {}
        /\ seq_tareas = 0
        /\ tareas_servicio = EmptyBag
     \/ /\ tareas = {TareaPrevia}
        /\ seq_tareas = 1
        /\ tareas_servicio = Relaciones(1, <<1, 2>>)
  /\ servicios_pendientes = EmptyBag

\* The catalogue, the completion service and the callers at the start.
InitResto(C) ==
  /\ servicios = ServiciosIniciales
  /\ clientes = C
  /\ carriers = CarriersIniciales
  /\ gpt_llamadas = 0
  /\ gpt_cache = {}
  /\ gpt_memoria = CargarCache(gpt_cache)
  /\ pc = [w \in Workers |-> "idle"]
  /\ arg = [w \in Workers |-> NoArgs]
  /\ encontrada = [w \in Workers |-> NoTarea]
  /\ tarea = [w \in Workers |-> NULLID]
  /\ creada = [w \in Workers |-> FALSE]
  /\ borradas = [w \in Workers |-> EmptyBag]
  /\ correo = [w \in Workers |-> NoCorreo]
  /\ datos = [w \in Workers |-> NoDatos]
  /\ intentos = [w \in Workers |-> 0]
  /\ error = [w \in Workers |-> None]
  /\ respuesta = [w \in Workers |-> SinRespuesta]
  /\ pendientes = [w \in Workers |-> <<>>]
  /\ registro = [w \in Workers |-> NoRegistro]
  /\ llamadas = 0

Init == InitTareas /\ InitResto({}) /\ InitOtros(Restricciones, {})

\* Mutant of ClaveParaBuscar: the task is looked up by carrier_id alone
\* being given (a None id_interno is compared as IS NULL).
ClaveParaBuscar_SoloCarrier(a) == TruthyInt(a.carrier_id)

\* Line 832: if carrier_id and id_interno
ClaveParaBuscar(a) == TruthyInt(a.carrier_id) /\ TruthyStr(a.id_interno)

\* crear_tarea_programada, lines 829-840: the session opens and, with a
\* complete key, looks the task up.
Consulta(w, a) ==
  /\ arg' = [arg EXCEPT ![w] = a]
  /\ encontrada' = [encontrada EXCEPT ![w] =
       IF ClaveParaBuscar(a)
          /\ TareasDeClave(tareas, a.carrier_id, a.id_interno) # {}
       THEN CHOOSE r \in TareasDeClave(tareas, a.carrier_id, a.id_interno) :
              \A q \in TareasDeClave(tareas, a.carrier_id, a.id_interno) : r.id <= q.id
       ELSE NoTarea]
  /\ creada' = [creada EXCEPT ![w] = FALSE]
  /\ pc' = [pc EXCEPT ![w] = "commit_tarea"]

\* A direct call of crear_tarea_programada.
Consultar(w, a) ==
  /\ pc[w] = "idle"
  /\ esquema = Restricciones
  /\ llamadas < MaxLlamadas
  /\ llamadas' = llamadas + 1
  /\ Consulta(w, a)
  /\ UNCHANGED <<store, gpt, tarea, borradas, extraccion>>
  /\ UNCHANGED otros

\* Lines 841-861: update the loaded row or insert a new one; first commit.
\* An insert that collides with uix_carrier_interno raises IntegrityError,
\* which nothing in the function catches.
CommitTarea(w) ==
  /\ pc[w] = "commit_tarea"
  /\ IF encontrada[w] # NoTarea
     THEN /\ tareas' = { IF r.id = encontrada[w].id
                         THEN TareaActualizada(r, arg[w]) ELSE r : r \in tareas }
          /\ tarea' = [tarea EXCEPT ![w] = encontrada[w].id]
          /\ pc' = [pc EXCEPT ![w] = "delete_relaciones"]
          /\ UNCHANGED <<seq_tareas, creada>>
     ELSE /\ seq_tareas' = seq_tareas + 1
          /\ creada' = [creada EXCEPT ![w] = TRUE]
          /\ IF ChocaUixCarrierInterno(tareas, NuevaTarea(seq_tareas + 1, arg[w]))
             THEN /\ pc' = [pc EXCEPT ![w] = "IntegrityError"]
                  /\ UNCHANGED <<tareas, tarea>>
             ELSE /\ tareas' = tareas \cup {NuevaTarea(seq_tareas + 1, arg[w])}
                  /\ tarea' = [tarea EXCEPT ![w] = seq_tareas + 1]
                  /\ pc' = [pc EXCEPT ![w] = "delete_relaciones"]
  /\ UNCHANGED <<tareas_servicio, catalogo, gpt, arg, encontrada, borradas,
                 extraccion, llamadas>>
  /\ UNCHANGED otros

\* Mutant of BorrarRelaciones: the DELETE is committed on its own, before
\* the insert of the new links.
BorrarRelaciones_Confirmado(w) ==
  /\ pc[w] = "delete_relaciones"
  /\ tareas_servicio' = tareas_servicio (-) RelacionesDe(tareas_servicio, tarea[w])
  /\ pc' = [pc EXCEPT ![w] = "commit_relaciones"]
  /\ UNCHANGED <<tareas, seq_tareas, catalogo, gpt, arg, encontrada, tarea,
                 creada, borradas, extraccion, llamadas>>
  /\ UNCHANGED otros

\* Mutant of BorrarRelaciones: the previous links are not deleted.
BorrarRelaciones_Omitido(w) ==
  /\ pc[w] = "delete_relaciones"
  /\ borradas' = [borradas EXCEPT ![w] = EmptyBag]
  /\ pc' = [pc EXCEPT ![w] = "commit_relaciones"]
  /\ UNCHANGED <<store, gpt, arg, encontrada, tarea, creada, extraccion,
                 llamadas>>
  /\ UNCHANGED otros

\* A row of the bag B is locked by the open DELETE of a caller other than w.
Bloqueada(w, B) ==
  \E v \in Workers \ {w} :
    /\ pc[v] = "commit_relaciones"
    /\ BagToSet(borradas[v]) \cap BagToSet(B) # {}

\* Lines 863-864: DELETE of the task's links, inside the second transaction:
\* it finds the rows committed when the statement starts and shows nothing
\* to others until the commit.  The deleted rows stay locked: a DELETE that
\* finds a row another open transaction has deleted waits for that
\* transaction.
BorrarRelaciones(w) ==
  /\ pc[w] = "delete_relaciones"
  /\ borradas' = [borradas EXCEPT ![w] = RelacionesDe(tareas_servicio, tarea[w])]
  /\ pc' = [pc EXCEPT ![w] =
       IF Bloqueada(w, RelacionesDe(tareas_servicio, tarea[w]))
       THEN "delete_espera" ELSE "commit_relaciones"]
  /\ UNCHANGED <<store, gpt, arg, encontrada, tarea, creada, extraccion,
                 llamadas>>
  /\ UNCHANGED otros

\* The DELETE that waited goes on when the other transaction has ended: of
\* the rows it found it deletes those the other did not delete, and it
\* does not see the rows committed after it started.
ReanudarBorrado(w) ==
  /\ pc[w] = "delete_espera"
  /\ ~Bloqueada(w, borradas[w])
  /\ pc' = [pc EXCEPT ![w] = "commit_relaciones"]
  /\ UNCHANGED <<store, gpt, arg, encontrada, tarea, creada, borradas,
                 extraccion, llamadas>>
  /\ UNCHANGED otros

\* Lines 865-870: bulk insert of the new links and second commit; the
\* function returns to its caller.
CommitRelaciones(w) ==
  /\ pc[w] = "commit_relaciones"
  /\ LET resto == tareas_servicio (-) borradas[w]
         nuevas == Relaciones(tarea[w], Dedup(arg[w].servicios))
     IN IF ChocaUixTareaServicio(resto, nuevas)
        THEN /\ pc' = [pc EXCEPT ![w] = "IntegrityError"]
             /\ UNCHANGED <<tareas_servicio, borradas>>
        ELSE /\ tareas_servicio' = resto (+) nuevas
             /\ pc' = [pc EXCEPT ![w] =
                  IF correo[w] # NoCorreo THEN "post_upsert" ELSE "retorno"]
             /\ borradas' = [ v \in Workers |->
                  IF v # w /\ pc[v] = "delete_espera"
                  THEN borradas[v] (-) borradas[w] ELSE borradas[v] ]
  /\ UNCHANGED <<tareas, seq_tareas, catalogo, gpt, arg, encontrada, tarea,
                 creada, extraccion, llamadas>>
  /\ UNCHANGED otros

\* Mutant of TrasRegex: the completion service is asked whatever the fast
\* path found.
TrasRegex_SiempreGPT(d) == "gpt1"

\* Lines 458-462 and 502: with fast-path data the fallback is skipped.
TrasRegex(d) == IF d # NoDatos THEN "extraido" ELSE "gpt1"

\* Mutant of ProcesarCorreo: the client row is looked up or created before
\* the extraction instead of after it.
ProcesarCorreo_ClienteAntes(w, c) ==
  /\ pc[w] = "idle"
  /\ esquema = Restricciones
  /\ llamadas < MaxLlamadas
  /\ llamadas' = llamadas + 1
  /\ correo' = [correo EXCEPT ![w] = c]
  /\ datos' = [datos EXCEPT ![w] = _extraer_por_regex(_limpiar_correo(c.texto))]
  /\ intentos' = [intentos EXCEPT ![w] = 0]
  /\ error' = [error EXCEPT ![w] = None]
  /\ pc' = [pc EXCEPT ![w] = TrasRegex(_extraer_por_regex(_limpiar_correo(c.texto)))]
  /\ clientes' = ConNombre(clientes, c.cliente_nombre)
  /\ UNCHANGED <<upsert, servicios_pendientes, servicios, carriers, gpt, arg,
                 encontrada, tarea, creada, borradas, respuesta, pendientes, registro>>
  /\ UNCHANGED otros

\* procesar_correo_a_tarea, lines 450-502: cleaning, sniffing and the fast
\* path; when the fast path finds nothing the first completion request
\* is due.
ProcesarCorreo(w, c) ==
  /\ pc[w] = "idle"
  /\ esquema = Restricciones
  /\ llamadas < MaxLlamadas
  /\ llamadas' = llamadas + 1
  /\ correo' = [correo EXCEPT ![w] = c]
  /\ datos' = [datos EXCEPT ![w] = _extraer_por_regex(_limpiar_correo(c.texto))]
  /\ intentos' = [intentos EXCEPT ![w] = 0]
  /\ error' = [error EXCEPT ![w] = None]
  /\ pc' = [pc EXCEPT ![w] = TrasRegex(_extraer_por_regex(_limpiar_correo(c.texto)))]
  /\ UNCHANGED <<store, gpt, arg, encontrada, tarea, creada, borradas, respuesta,
                 pendientes, registro>>
  /\ UNCHANGED otros

\* GPTHandler.consultar_gpt(prompt, cache) answering r: with the cache on
\* and the prompt already answered, the kept answer comes back and the
\* external service is not asked; otherwise the service is asked, and with
\* the cache on its answer is kept.
EnCache(prompt, cache) == cache /\ \E e \in gpt_memoria : e.prompt = prompt

consultar_gpt(prompt, cache, r) ==
  /\ r \in IF EnCache(prompt, cache)
           THEN { e.respuesta : e \in { x \in gpt_memoria : x.prompt = prompt } }
           ELSE Respuestas
  /\ gpt_llamadas' = IF EnCache(prompt, cache) THEN gpt_llamadas ELSE gpt_llamadas + 1
  /\ gpt_memoria' = IF cache /\ ~EnCache(prompt, cache) /\ r.clase # "excepcion"
                    THEN gpt_memoria \cup {[prompt |-> prompt, respuesta |-> r]}
                    ELSE gpt_memoria
  /\ gpt_cache' = IF cache /\ ~EnCache(prompt, cache) /\ r.clase # "excepcion"
                  THEN GuardarCache(gpt_memoria')
                  ELSE gpt_cache

\* The except clause of line 527: any failure of the fallback becomes
\* the ValueError of line 528.
FallaExtraccion(w) ==
  /\ pc' = [pc EXCEPT ![w] = "ValueError"]
  /\ error' = [error EXCEPT ![w] = "No se pudo extraer la tarea del correo"]
  /\ UNCHANGED datos

\* Lines 522-526: the matched text is parsed and validated.
Validar(w, r) ==
  IF procesar_json_response(r) = NoDatos
  THEN FallaExtraccion(w)
  ELSE /\ datos' = [datos EXCEPT ![w] = procesar_json_response(r)]
       /\ pc' = [pc EXCEPT ![w] = "extraido"]
       /\ UNCHANGED error

\* Mutant of RespuestaGPT1: an answer without JSON fails at once, with no
\* second request.
RespuestaGPT1_SinReintento(w, r) ==
  /\ pc[w] = "gpt1"
  /\ consultar_gpt(Prompt(_limpiar_correo(correo[w].texto)), CacheDelCorreo, r)
  /\ intentos' = [intentos EXCEPT ![w] = @ + 1]
  /\ respuesta' = [respuesta EXCEPT ![w] = r]
  /\ IF r.clase = "excepcion" \/ ~TieneJSON(r)
     THEN FallaExtraccion(w)
     ELSE Validar(w, r)
  /\ UNCHANGED <<store, arg, encontrada, tarea, creada, borradas, correo,
                 pendientes, registro, llamadas>>
  /\ UNCHANGED otros

\* Lines 504-509: the first request is answered by r.
RespuestaGPT1(w, r) ==
  /\ pc[w] = "gpt1"
  /\ consultar_gpt(Prompt(_limpiar_correo(correo[w].texto)), CacheDelCorreo, r)
  /\ intentos' = [intentos EXCEPT ![w] = @ + 1]
  /\ respuesta' = [respuesta EXCEPT ![w] = r]
  /\ IF r.clase = "excepcion" THEN FallaExtraccion(w)
     ELSE IF ~TieneJSON(r)
          THEN /\ pc' = [pc EXCEPT ![w] = "gpt2"]
               /\ UNCHANGED <<datos, error>>
          ELSE Validar(w, r)
  /\ UNCHANGED <<store, arg, encontrada, tarea, creada, borradas, correo,
                 pendientes, registro, llamadas>>
  /\ UNCHANGED otros

\* Lines 510-520: the retry with the stricter prompt is answered by r.
RespuestaGPT2(w, r) ==
  /\ pc[w] = "gpt2"
  /\ consultar_gpt(Prompt2(_limpiar_correo(correo[w].texto)), CacheDelCorreo, r)
  /\ intentos' = [intentos EXCEPT ![w] = @ + 1]
  /\ respuesta' = [respuesta EXCEPT ![w] = r]
  /\ IF r.clase = "excepcion" \/ ~TieneJSON(r)
     THEN FallaExtraccion(w)
     ELSE Validar(w, r)
  /\ UNCHANGED <<store, arg, encontrada, tarea, creada, borradas, correo,
                 pendientes, registro, llamadas>>
  /\ UNCHANGED otros

\* Lines 530-651: dates, filter, client and carrier, resolution, and the
\* call of crear_tarea_programada up to its query.
Persistir(w) ==
  /\ pc[w] = "extraido"
  /\ LET c == correo[w]
         d == datos[w]
     IN IF ~(FechaValida(d.inicio) /\ FechaValida(d.fin))
        THEN /\ pc' = [pc EXCEPT ![w] = "ValueError"]
             /\ error' = [error EXCEPT ![w] = "Fechas con formato invalido"]
             /\ UNCHANGED <<clientes, carriers, arg, encontrada, creada, pendientes, registro>>
        ELSE IF ~FechasEnOrden(_parse_fecha(d.inicio), _parse_fecha(d.fin))
        THEN /\ pc' = [pc EXCEPT ![w] = "ValueError"]
             /\ error' = [error EXCEPT ![w] =
                  "La fecha de inicio debe ser anterior al fin"]
             /\ UNCHANGED <<clientes, carriers, arg, encontrada, creada, pendientes, registro>>
        ELSE LET nombre == CarrierNombre(c)
                 ids == Filtrados(IdsBrutos(c, d), nombre)
             IN /\ clientes' = ConNombre(clientes, c.cliente_nombre)
                /\ carriers' = IF TruthyStr(nombre)
                               THEN ConNombre(carriers, nombre) ELSE carriers
                /\ Consulta(w,
                     [ aviso |-> [ fecha_inicio |-> _parse_fecha(d.inicio),
                                   fecha_fin |-> _parse_fecha(d.fin),
                                   tipo_tarea |-> Tipo(c, d),
                                   tiempo_afectacion |-> d.afectacion,
                                   descripcion |-> d.descripcion ],
                       servicios |-> ServiciosResueltos(servicios, ids),
                       carrier_id |-> IF TruthyStr(nombre)
                                      THEN IdDeNombre(ConNombre(carriers, nombre), nombre)
                                      ELSE NULLID,
                       id_interno |->
                         _detectar_datos_correo(_limpiar_correo(c.texto)).id_interno ])
                /\ pendientes' = [pendientes EXCEPT ![w] = IdsPendientes(servicios, ids)]
                /\ registro' = [registro EXCEPT ![w] =
                     RegistroDe(IdsBrutos(c, d), nombre, servicios)]
                /\ UNCHANGED error
  /\ UNCHANGED <<upsert, servicios_pendientes, servicios, gpt, tarea, borradas,
                 correo, datos, intentos, respuesta, llamadas>>
  /\ UNCHANGED otros

\* The ServicioPendiente rows of crear_servicio_pendiente, one per token.
RECURSIVE Pendientes(_, _)
Pendientes(t, tokens) ==
  IF tokens = <<>> THEN EmptyBag
  ELSE SetToBag({[tarea_id |-> t, id_carrier |-> Head(tokens)]})
       (+) Pendientes(t, Tail(tokens))

\* ids_pendientes of the run of worker w, as the loop of lines 612-637
\* left it.
ids_pendientes(w) == pendientes[w]

\* Mutant of Finalizar: a pending row is stored only when the task has none
\* with that identifier yet.
Finalizar_SinDuplicar(w) ==
  /\ pc[w] = "post_upsert"
  /\ servicios' =
       IF arg[w].carrier_id # NULLID
       THEN { IF r.id \in Rango(arg[w].servicios)
              THEN [r EXCEPT !.carrier_id = arg[w].carrier_id,
                             !.carrier = CarrierNombre(correo[w])]
              ELSE r : r \in servicios }
       ELSE servicios
  /\ servicios_pendientes' =
       servicios_pendientes (+)
         SetToBag({ r \in BagToSet(Pendientes(tarea[w], ids_pendientes(w))) :
                      CopiesIn(r, servicios_pendientes) = 0 })
  /\ pc' = [pc EXCEPT ![w] = "retorno"]
  /\ UNCHANGED <<upsert, clientes, carriers, gpt, arg, encontrada, tarea, creada,
                 borradas, extraccion, llamadas>>
  /\ UNCHANGED otros

\* Mutant of Finalizar: a matched service takes the carrier only when it has
\* none.
Finalizar_SinSobrescribir(w) ==
  /\ pc[w] = "post_upsert"
  /\ servicios' =
       IF arg[w].carrier_id # NULLID
       THEN { IF r.id \in Rango(arg[w].servicios) /\ r.carrier_id = NULLID
              THEN [r EXCEPT !.carrier_id = arg[w].carrier_id,
                             !.carrier = CarrierNombre(correo[w])]
              ELSE r : r \in servicios }
       ELSE servicios
  /\ servicios_pendientes' =
       servicios_pendientes (+) Pendientes(tarea[w], ids_pendientes(w))
  /\ pc' = [pc EXCEPT ![w] = "retorno"]
  /\ UNCHANGED <<upsert, clientes, carriers, gpt, arg, encontrada, tarea, creada,
                 borradas, extraccion, llamadas>>
  /\ UNCHANGED otros

\* Lines 652-678: the matched services take the carrier, one pending row
\* is stored per unresolved identifier, and the run returns.
Finalizar(w) ==
  /\ pc[w] = "post_upsert"
  /\ servicios' =
       IF arg[w].carrier_id # NULLID
       THEN { IF r.id \in Rango(arg[w].servicios)
              THEN [r EXCEPT !.carrier_id = arg[w].carrier_id,
                             !.carrier = CarrierNombre(correo[w])]
              ELSE r : r \in servicios }
       ELSE servicios
  /\ servicios_pendientes' =
       servicios_pendientes (+) Pendientes(tarea[w], ids_pendientes(w))
  /\ pc' = [pc EXCEPT ![w] = "retorno"]
  /\ UNCHANGED <<upsert, clientes, carriers, gpt, arg, encontrada, tarea, creada,
                 borradas, extraccion, llamadas>>
  /\ UNCHANGED otros

\* The call is over (it returned or it raised); its session closes.
Retornar(w) ==
  /\ pc[w] \in {"retorno", "IntegrityError", "ValueError"}
  /\ pc' = [pc EXCEPT ![w] = "idle"]
  /\ arg' = [arg EXCEPT ![w] = NoArgs]
  /\ encontrada' = [encontrada EXCEPT ![w] = NoTarea]
  /\ tarea' = [tarea EXCEPT ![w] = NULLID]
  /\ creada' = [creada EXCEPT ![w] = FALSE]
  /\ correo' = [correo EXCEPT ![w] = NoCorreo]
  /\ datos' = [datos EXCEPT ![w] = NoDatos]
  /\ intentos' = [intentos EXCEPT ![w] = 0]
  /\ error' = [error EXCEPT ![w] = None]
  /\ respuesta' = [respuesta EXCEPT ![w] = SinRespuesta]
  /\ pendientes' = [pendientes EXCEPT ![w] = <<>>]
  /\ registro' = [registro EXCEPT ![w] = NoRegistro]
  /\ borradas' = [borradas EXCEPT ![w] = EmptyBag]
  /\ UNCHANGED <<store, gpt, llamadas>>
  /\ UNCHANGED otros

\* Concurrent callers of crear_tarea_programada.
Next ==
  \E w \in Workers :
    \/ \E a \in Argumentos : Consultar(w, a)
    \/ CommitTarea(w)
    \/ BorrarRelaciones(w)
    \/ ReanudarBorrado(w)
    \/ CommitRelaciones(w)
    \/ Retornar(w)

Spec == Init /\ [][Next]_vars

\* One caller at a time: direct calls and runs of procesar_correo_a_tarea,
\* each finished before the next starts.
NextSec ==
  \E w \in {"w1"} :
    \/ \E a \in Argumentos : Consultar(w, a)
    \/ \E c \in Correos : ProcesarCorreo(w, c)
    \/ \E r \in Respuestas : RespuestaGPT1(w, r)
    \/ \E r \in Respuestas : RespuestaGPT2(w, r)
    \/ Persistir(w)
    \/ CommitTarea(w)
    \/ BorrarRelaciones(w)
    \/ CommitRelaciones(w)
    \/ Finalizar(w)
    \/ Retornar(w)

SpecSec == Init /\ [][NextSec]_vars

\* Direct calls of GPTHandler.consultar_gpt (cache on by default) and
\* module reloads that build a new instance over the same GPT_CACHE_FILE.
Preguntar(p, c, r) ==
  /\ consulta.n < MaxConsultas
  /\ consultar_gpt(p, c, r)
  /\ consulta' = [ n |-> consulta.n + 1, prompt |-> p, cache |-> c,
                   respuesta |-> r, instancia |-> instancia ]
  /\ UNCHANGED <<store, pc, arg, encontrada, tarea, creada, borradas,
                 extraccion, llamadas, instancia, registros, altas, depurado,
                 correos, voz, migraciones>>

Recargar ==
  /\ instancia < MaxInstancias
  /\ instancia' = instancia + 1
  /\ gpt_memoria' = CargarCache(gpt_cache)
  /\ UNCHANGED <<store, gpt_llamadas, gpt_cache, pc, arg, encontrada, tarea,
                 creada, borradas, extraccion, llamadas, consulta, registros,
                 altas, depurado, correos, voz, migraciones>>

NextGPT ==
  \/ \E p \in Mensajes : \E c \in BOOLEAN : \E r \in Respuestas : Preguntar(p, c, r)
  \/ Recargar

SpecGPT == Init /\ [][NextGPT]_vars

----------------------------------------------------------------------------
\* ensure_servicio_columns on a store written before the unique
\* constraints: eliminar_duplicados_tareas and the ALTER TABLEs.

\* Rows of tareas_programadas stored before uix_carrier_interno: three of
\* the key (1, "ID1") and two without carrier.
TareasLegado ==
  { TareaPrevia,
    [TareaPrevia EXCEPT !.id = 2, !.fecha_inicio = 2, !.fecha_fin = 3],
    [TareaPrevia EXCEPT !.id = 3, !.descripcion = "Corte"],
    [TareaPrevia EXCEPT !.id = 4, !.carrier_id = NULLID],
    [TareaPrevia EXCEPT !.id = 5, !.carrier_id = NULLID] }

\* Their links: each task to a service of its own, or the task of lowest
\* id and a duplicate of it to the same service.
EnlacesLegado ==
  { Relaciones(1, <<1>>) (+) Relaciones(2, <<2>>) (+) Relaciones(3, <<3>>)
      (+) Relaciones(4, <<1>>),
    Relaciones(1, <<1, 2>>) (+) Relaciones(2, <<1>>) (+) Relaciones(5, <<1>>) }

\* WHERE carrier_id IS NOT NULL AND id_interno IS NOT NULL (line 245).
ClaveNoNula(r) == r.carrier_id # NULLID /\ r.id_interno # None

\* GROUP BY carrier_id, id_interno (line 246): the rows of r's pair.
Grupo(T, r) ==
  { x \in T : x.carrier_id = r.carrier_id /\ x.id_interno = r.id_interno }

\* Mutant of keep_id: the row of highest id is kept.
keep_id_Max(G) == CHOOSE m \in { x.id : x \in G } : \A x \in G : x.id <= m

\* MIN(id) AS keep_id (line 243).
keep_id(G) == CHOOSE m \in { x.id : x \in G } : \A x \in G : m <= x.id

\* The rows the DELETE of lines 277-280 leaves: those outside the groups
\* of lines 241-248 and the keep_id row of each group.
Conservadas(T) ==
  { r \in T : ~ClaveNoNula(r) \/ r.id = keep_id(Grupo(T, r)) }

\* The task a row of task id ends under: keep_id for a duplicate.
Destino(T, id) ==
  IF \E r \in T : r.id = id /\ ClaveNoNula(r)
  THEN keep_id(Grupo(T, CHOOSE r \in T : r.id = id))
  ELSE id

\* Mutant of Repuntar: the rows are left under the task they had.
Repuntar_Omitido(B, T) == B

\* UPDATE ... SET tarea_id = :k WHERE tarea_id = :d for every duplicate
\* (lines 261-276): the table afterwards.
Repuntar(B, T) ==
  LET mover(r) == [r EXCEPT !.tarea_id = Destino(T, r.tarea_id)]
  IN [ x \in { mover(r) : r \in BagToSet(B) } |->
         BagCardinality([ r \in { y \in BagToSet(B) : mover(y) = x } |-> B[r] ]) ]

\* Two rows of the table have the same pair.
ParRepetido(B) == \E r \in BagToSet(B) : CopiesIn(r, B) > 1

\* Lines 396-406: one transaction runs eliminar_duplicados_tareas (lines
\* 233-282) and adds uix_carrier_interno.  An UPDATE that gives a pair of
\* tareas_servicio twice raises IntegrityError when uix_tarea_servicio is
\* there, and the transaction is rolled back.
eliminar_duplicados_tareas ==
  /\ "uix_carrier_interno" \notin esquema
  /\ migracion = None
  /\ IF "uix_tarea_servicio" \in esquema
        /\ ParRepetido(Repuntar(tareas_servicio, tareas))
     THEN /\ migracion' = "IntegrityError"
          /\ UNCHANGED <<tareas, tareas_servicio, servicios_pendientes, esquema>>
     ELSE /\ tareas' = Conservadas(tareas)
          /\ tareas_servicio' = Repuntar(tareas_servicio, tareas)
          /\ servicios_pendientes' = Repuntar(servicios_pendientes, tareas)
          /\ esquema' = esquema \cup {"uix_carrier_interno"}
          /\ migracion' = "depurado"
  /\ UNCHANGED <<seq_tareas, servicios, clientes, carriers, gpt, pc, arg,
                 encontrada, tarea, creada, borradas, extraccion, llamadas,
                 asistente, registros, altas, depurado, correos, voz>>

\* Lines 411-424: uix_tarea_servicio is added when missing; the ALTER TABLE
\* fails on a table that has a pair twice.
agregar_uix_tarea_servicio ==
  /\ "uix_carrier_interno" \in esquema
  /\ "uix_tarea_servicio" \notin esquema
  /\ migracion = "depurado"
  /\ IF ParRepetido(tareas_servicio)
     THEN /\ migracion' = "IntegrityError"
          /\ UNCHANGED esquema
     ELSE /\ esquema' = esquema \cup {"uix_tarea_servicio"}
          /\ UNCHANGED migracion
  /\ UNCHANGED <<store, gpt, pc, arg, encontrada, tarea, creada, borradas,
                 extraccion, llamadas, asistente, registros, altas, depurado,
                 correos, voz>>

\* The store as written before the constraints, with or without
\* uix_tarea_servicio.
InitLegado ==
  /\ tareas = TareasLegado
  /\ seq_tareas = 5
  /\ tareas_servicio \in EnlacesLegado
  /\ servicios_pendientes =
       SetToBag({ [tarea_id |-> 2, id_carrier |-> IdSRV9],
                  [tarea_id |-> 4, id_carrier |-> IdNOC] })
  /\ InitResto({})
  /\ \E E \in { {}, {"uix_tarea_servicio"} } : InitOtros(E, {})

\* init_db and then sequential runs of the pipeline and of
\* crear_tarea_programada.
NextMant ==
  \/ eliminar_duplicados_tareas
  \/ agregar_uix_tarea_servicio
  \/ \E a \in Argumentos : Consultar("w1", a)
  \/ \E c \in Correos : ProcesarCorreo("w1", c)
  \/ \E r \in Respuestas : RespuestaGPT1("w1", r)
  \/ \E r \in Respuestas : RespuestaGPT2("w1", r)
  \/ Persistir("w1")
  \/ CommitTarea("w1")
  \/ BorrarRelaciones("w1")
  \/ CommitRelaciones("w1")
  \/ Finalizar("w1")
  \/ Retornar("w1")

SpecMant == InitLegado /\ [][NextMant]_vars

----------------------------------------------------------------------------
\* voice_handler.

\* str.strip(): no whitespace at either end.
RECURSIVE strip(_)
strip(s) ==
  IF s = <<>> THEN <<>>
  ELSE IF Head(s) = " " THEN strip(Tail(s))
  ELSE IF s[Len(s)] = " " THEN strip(SubSeq(s, 1, Len(s) - 1))
  ELSE s

\* Lines 14-16: the update is received; without message or voice the
\* handler returns.
voice_handler(u) ==
  /\ voz_pc = "idle"
  /\ Len(updates) < MaxUpdates
  /\ updates' = Append(updates, u)
  /\ voz_pc' = IF ~u.mensaje \/ ~u.voice THEN "idle" ELSE "descarga"
  /\ UNCHANGED eventos
  /\ UNCHANGED <<store, gpt, pc, arg, encontrada, tarea, creada, borradas,
                 extraccion, llamadas, asistente, registros, altas, depurado,
                 correos, migraciones>>

\* Lines 18-20, outside the try: a failed download leaves the handler
\* with its exception.
Descargar ==
  /\ voz_pc = "descarga"
  /\ voz_pc' = IF updates[Len(updates)].descarga THEN "transcripcion" ELSE "idle"
  /\ UNCHANGED <<updates, eventos>>
  /\ UNCHANGED <<store, gpt, pc, arg, encontrada, tarea, creada, borradas,
                 extraccion, llamadas, asistente, registros, altas, depurado,
                 correos, migraciones>>

\* Mutant of Transcribir: the except clause replies without returning, so
\* message_handler is awaited after the reply too.
Transcribir_SinRetorno ==
  /\ voz_pc = "transcripcion"
  /\ voz_pc' = "idle"
  /\ LET t == updates[Len(updates)].transcripcion
         entrega == [update |-> Len(updates), llamada |-> "message_handler",
                     texto |-> strip(t.text)]
     IN eventos' =
          IF t.clase = "excepcion"
          THEN eventos \o
               << [update |-> Len(updates), llamada |-> "responder_registrando",
                   texto |-> <<"No pude transcribir el audio. Reintentá más tarde.">>],
                  entrega >>
          ELSE Append(eventos, entrega)
  /\ UNCHANGED updates
  /\ UNCHANGED <<store, gpt, pc, arg, encontrada, tarea, creada, borradas,
                 extraccion, llamadas, asistente, registros, altas, depurado,
                 correos, migraciones>>

\* Lines 21-41: the transcription; on any exception one reply and return,
\* otherwise the stripped text is set and message_handler is awaited.
Transcribir ==
  /\ voz_pc = "transcripcion"
  /\ voz_pc' = "idle"
  /\ LET t == updates[Len(updates)].transcripcion
     IN eventos' = Append(eventos,
          IF t.clase = "excepcion"
          THEN [update |-> Len(updates), llamada |-> "responder_registrando",
                texto |-> <<"No pude transcribir el audio. Reintentá más tarde.">>]
          ELSE [update |-> Len(updates), llamada |-> "message_handler",
                texto |-> strip(t.text)])
  /\ UNCHANGED updates
  /\ UNCHANGED <<store, gpt, pc, arg, encontrada, tarea, creada, borradas,
                 extraccion, llamadas, asistente, registros, altas, depurado,
                 correos, migraciones>>

NextVoz ==
  \/ \E u \in UpdatesVoz : voice_handler(u)
  \/ Descargar
  \/ Transcribir

SpecVoz == Init /\ [][NextVoz]_vars

----------------------------------------------------------------------------
\* The address lists of the clients.

\* session.get(Cliente, cliente_id) finds a row.
ExisteCliente(cliente_id) == \E c \in clientes : c.id = cliente_id

\* cargar_destinatarios (lines 79-93).
cargar_destinatarios(cliente_id, carrier) ==
  IF ~ExisteCliente(cliente_id) THEN <<>>
  ELSE IF carrier # None THEN destinatarios[cliente_id].carrier[carrier]
  ELSE destinatarios[cliente_id].general

\* guardar_destinatarios (lines 96-114): the columns afterwards (an empty
\* list removes the carrier's key, which reads as [] again).
guardar_destinatarios(lista, cliente_id, carrier) ==
  IF ~ExisteCliente(cliente_id) THEN destinatarios
  ELSE IF carrier # None
  THEN [destinatarios EXCEPT ![cliente_id].carrier[carrier] = lista]
  ELSE [destinatarios EXCEPT ![cliente_id].general = lista]

\* Mutant of ConCorreo: the address is appended without looking it up.
ConCorreo_Siempre(lista, correo_) == Append(lista, correo_)

\* Lines 123-124: append unless present.
ConCorreo(lista, correo_) ==
  IF correo_ \in Rango(lista) THEN lista ELSE Append(lista, correo_)

\* list.remove: the first occurrence is taken out.
SinCorreo(lista, correo_) ==
  LET i == CHOOSE k \in 1..Len(lista) :
             lista[k] = correo_ /\ \A j \in 1..(k - 1) : lista[j] # correo_
  IN SubSeq(lista, 1, i - 1) \o SubSeq(lista, i + 1, Len(lista))

\* agregar_destinatario (lines 117-125).
agregar_destinatario(correo_, cliente_id, carrier) ==
  /\ destinatarios' = guardar_destinatarios(
       ConCorreo(cargar_destinatarios(cliente_id, carrier), correo_),
       cliente_id, carrier)
  /\ ultima' = [op |-> "agregar", correo |-> correo_, cliente_id |-> cliente_id,
                carrier |-> carrier, retorno |-> ExisteCliente(cliente_id)]
  /\ UNCHANGED <<store, gpt, pc, arg, encontrada, tarea, creada, borradas,
                 extraccion, llamadas, asistente, registros, altas, depurado, voz,
                 migraciones>>

\* eliminar_destinatario (lines 128-137).
eliminar_destinatario(correo_, cliente_id, carrier) ==
  /\ IF correo_ \notin Rango(cargar_destinatarios(cliente_id, carrier))
     THEN /\ UNCHANGED destinatarios
          /\ ultima' = [op |-> "eliminar", correo |-> correo_,
                        cliente_id |-> cliente_id, carrier |-> carrier,
                        retorno |-> FALSE]
     ELSE /\ destinatarios' = guardar_destinatarios(
               SinCorreo(cargar_destinatarios(cliente_id, carrier), correo_),
               cliente_id, carrier)
          /\ ultima' = [op |-> "eliminar", correo |-> correo_,
                        cliente_id |-> cliente_id, carrier |-> carrier,
                        retorno |-> ExisteCliente(cliente_id)]
  /\ UNCHANGED <<store, gpt, pc, arg, encontrada, tarea, creada, borradas,
                 extraccion, llamadas, asistente, registros, altas, depurado, voz,
                 migraciones>>

InitDest ==
  /\ InitTareas /\ InitResto({ClienteACME}) /\ InitOtros(Restricciones, {})

NextDest ==
  \/ \E d \in Direcciones : \E c \in ClientesDest :
       \E k \in CarriersDest \cup {None} : agregar_destinatario(d, c, k)
  \/ \E d \in Direcciones : \E c \in ClientesDest :
       \E k \in CarriersDest \cup {None} : eliminar_destinatario(d, c, k)

SpecDest == InitDest /\ [][NextDest]_vars

----------------------------------------------------------------------------
\* crear_camara, crear_reclamo (concurrent callers) and
\* depurar_reclamos_duplicados.

\* uix_camara_unica: UNIQUE (id_servicio, nombre).
ChocaUixCamaraUnica_Ausente(T, id_servicio, nombre) == FALSE

ChocaUixCamaraUnica(T, id_servicio, nombre) ==
  \E r \in T : r.id_servicio = id_servicio /\ r.nombre = nombre

\* uix_reclamo_unico: UNIQUE (servicio_id, numero); a NULL never collides.
ChocaUixReclamoUnico(T, servicio_id, numero) ==
  /\ numero # None
  /\ \E r \in T : r.servicio_id = servicio_id /\ r.numero = numero

\* .first() of a query without ORDER BY: any of the matching rows.
Primeras(F) == IF F = {} THEN {NoFila} ELSE F

\* Lines 727-731: the insert and its commit.
crear_camara(w, nombre, id_servicio) ==
  /\ pc_alta[w] = "idle"
  /\ n_altas < MaxAltas
  /\ n_altas' = n_altas + 1
  /\ alta' = [alta EXCEPT ![w] = [tabla |-> "camaras", servicio |-> id_servicio,
                                   nombre |-> nombre, choque |-> FALSE]]
  /\ seq_camaras' = seq_camaras + 1
  /\ IF ChocaUixCamaraUnica(camaras, id_servicio, nombre)
     THEN /\ pc_alta' = [pc_alta EXCEPT ![w] = "IntegrityError"]
          /\ UNCHANGED <<camaras, resultado>>
     ELSE /\ camaras' = camaras \cup
               {[id |-> seq_camaras', nombre |-> nombre, id_servicio |-> id_servicio]}
          /\ resultado' = [resultado EXCEPT ![w] =
               [id |-> seq_camaras', nombre |-> nombre, id_servicio |-> id_servicio]]
          /\ pc_alta' = [pc_alta EXCEPT ![w] = "retorno"]
  /\ UNCHANGED <<reclamos, seq_reclamos, depurado>>
  /\ UNCHANGED <<store, gpt, pc, arg, encontrada, tarea, creada, borradas,
                 extraccion, llamadas, asistente, correos, voz,
                 migraciones>>

\* Lines 732-741: the except clause rolls back and reads the stored row.
recuperar_camara(w) ==
  /\ pc_alta[w] = "IntegrityError"
  /\ alta[w].tabla = "camaras"
  /\ alta' = [alta EXCEPT ![w].choque = TRUE]
  /\ \E f \in Primeras({ r \in camaras : /\ r.id_servicio = alta[w].servicio
                                           /\ r.nombre = alta[w].nombre }) :
       resultado' = [resultado EXCEPT ![w] = f]
  /\ pc_alta' = [pc_alta EXCEPT ![w] = "retorno"]
  /\ UNCHANGED <<registros, n_altas, depurado>>
  /\ UNCHANGED <<store, gpt, pc, arg, encontrada, tarea, creada, borradas,
                 extraccion, llamadas, asistente, correos, voz,
                 migraciones>>

\* Lines 779-790: the insert and its commit.
crear_reclamo(w, servicio_id, numero) ==
  /\ pc_alta[w] = "idle"
  /\ n_altas < MaxAltas
  /\ n_altas' = n_altas + 1
  /\ alta' = [alta EXCEPT ![w] = [tabla |-> "reclamos", servicio |-> servicio_id,
                                   nombre |-> numero, choque |-> FALSE]]
  /\ seq_reclamos' = seq_reclamos + 1
  /\ IF ChocaUixReclamoUnico(reclamos, servicio_id, numero)
     THEN /\ pc_alta' = [pc_alta EXCEPT ![w] = "IntegrityError"]
          /\ UNCHANGED <<reclamos, resultado>>
     ELSE /\ reclamos' = reclamos \cup
               {[id |-> seq_reclamos', servicio_id |-> servicio_id, numero |-> numero]}
          /\ resultado' = [resultado EXCEPT ![w] =
               [id |-> seq_reclamos', servicio_id |-> servicio_id, numero |-> numero]]
          /\ pc_alta' = [pc_alta EXCEPT ![w] = "retorno"]
  /\ UNCHANGED <<camaras, seq_camaras, depurado>>
  /\ UNCHANGED <<store, gpt, pc, arg, encontrada, tarea, creada, borradas,
                 extraccion, llamadas, asistente, correos, voz,
                 migraciones>>

\* Lines 791-800: the except clause rolls back and reads the stored row.
recuperar_reclamo(w) ==
  /\ pc_alta[w] = "IntegrityError"
  /\ alta[w].tabla = "reclamos"
  /\ alta' = [alta EXCEPT ![w].choque = TRUE]
  /\ \E f \in Primeras({ r \in reclamos : /\ r.servicio_id = alta[w].servicio
                                            /\ r.numero = alta[w].nombre }) :
       resultado' = [resultado EXCEPT ![w] = f]
  /\ pc_alta' = [pc_alta EXCEPT ![w] = "retorno"]
  /\ UNCHANGED <<registros, n_altas, depurado>>
  /\ UNCHANGED <<store, gpt, pc, arg, encontrada, tarea, creada, borradas,
                 extraccion, llamadas, asistente, correos, voz,
                 migraciones>>

\* The call returns its row.
RetornarAlta(w) ==
  /\ pc_alta[w] = "retorno"
  /\ pc_alta' = [pc_alta EXCEPT ![w] = "idle"]
  /\ alta' = [alta EXCEPT ![w] = NoAlta]
  /\ resultado' = [resultado EXCEPT ![w] = NoFila]
  /\ UNCHANGED <<registros, n_altas, depurado>>
  /\ UNCHANGED <<store, gpt, pc, arg, encontrada, tarea, creada, borradas,
                 extraccion, llamadas, asistente, correos, voz,
                 migraciones>>

\* Lines 1027-1032: the numbers more than one row holds (GROUP BY puts
\* the rows without number in one group).
Repetidos(T) ==
  { r.numero : r \in { x \in T : \E y \in T : y.numero = x.numero /\ y.id # x.id } }

\* Lines 1035-1040: the rows of a number (== None is compiled to IS NULL).
Filas(T, numero) == { r \in T : r.numero = numero }

\* Mutant of Sobrantes: the rows are ordered by ascending id.
Sobrantes_Ascendente(F) == { r \in F : \E y \in F : y.id < r.id }

\* Lines 1038-1041: filas[1:] of the rows ordered by descending id.
Sobrantes(F) == { r \in F : \E y \in F : y.id > r.id }

\* Lines 1024-1045, run while no call of crear_reclamo is in progress.
depurar_reclamos_duplicados ==
  /\ depurado.n < MaxDepuraciones
  /\ \A w \in Workers : pc_alta[w] = "idle"
  /\ LET borrados == UNION { Sobrantes(Filas(reclamos, n)) : n \in Repetidos(reclamos) }
     IN /\ reclamos' = reclamos \ borrados
        /\ depurado' = [n |-> depurado.n + 1, eliminados |-> Cardinality(borrados)]
  /\ UNCHANGED <<camaras, seq_camaras, seq_reclamos, altas>>
  /\ UNCHANGED <<store, gpt, pc, arg, encontrada, tarea, creada, borradas,
                 extraccion, llamadas, asistente, correos, voz,
                 migraciones>>

InitAltas ==
  /\ InitTareas /\ InitResto({})
  /\ \E R \in { {}, ReclamosPrevios } : InitOtros(Restricciones, R)

NextAltas ==
  \/ \E w \in Workers :
       \/ \E n \in NombresCamara : \E s \in ServiciosAlta : crear_camara(w, n, s)
       \/ recuperar_camara(w)
       \/ \E s \in ServiciosAlta : \E n \in NumerosReclamo : crear_reclamo(w, s, n)
       \/ recuperar_reclamo(w)
       \/ RetornarAlta(w)
  \/ depurar_reclamos_duplicados

SpecAltas == InitAltas /\ [][NextAltas]_vars

----------------------------------------------------------------------------
\* Properties

\* The mutable columns of row r are those the call with arguments a passed.
TieneValores(r, a) ==
  /\ r.fecha_inicio = a.aviso.fecha_inicio
  /\ r.fecha_fin = a.aviso.fecha_fin
  /\ r.tipo_tarea = a.aviso.tipo_tarea
  /\ r.tiempo_afectacion = a.aviso.tiempo_afectacion
  /\ r.descripcion = a.aviso.descripcion

ClaveCompleta(a) == a.carrier_id # NULLID /\ a.id_interno # None

\* C1: in every reachable state, whatever the interleaving of the calls,
\* at most one tareas_programadas row exists per (carrier_id, id_interno)
\* pair with both values present.
C1_ClaveUnica ==
  \A r1 \in tareas : \A r2 \in tareas :
    ( /\ r1.carrier_id # NULLID
      /\ r1.id_interno # None
      /\ r1.carrier_id = r2.carrier_id
      /\ r1.id_interno = r2.id_interno ) => r1.id = r2.id

\* Two calls raced on one complete key: both queried before either
\* committed, one inserted the row and the other's insert was rejected.
C1_Testigo ==
  \E w \in Workers : \E v \in Workers \ {w} :
    /\ pc[w] = "IntegrityError" /\ tarea[w] = NULLID
    /\ pc[v] \in {"delete_relaciones", "commit_relaciones", "retorno"}
    /\ creada[v]
    /\ ClaveCompleta(arg[v])
    /\ arg[v].carrier_id = arg[w].carrier_id
    /\ arg[v].id_interno = arg[w].id_interno

\* C4 (as claimed): a collision on uix_carrier_interno is never surfaced to
\* the caller: no call ends with the IntegrityError of the task insert.
C4_ColisionNoPropagada ==
  \A w \in Workers : ~(pc[w] = "IntegrityError" /\ tarea[w] = NULLID)

\* C6: the task row is committed strictly before the links.  The step that
\* commits the task row leaves tareas_servicio as it was, and the only step
\* that changes tareas_servicio is the second commit, which makes the
\* deletion of the old links and the insertion of the new ones visible at
\* once (no visible state has the old links gone and the new ones missing).
C6_DosCommits ==
  [][ /\ (tareas' # tareas => tareas_servicio' = tareas_servicio)
      /\ \A w \in Workers :
           /\ (pc[w] = "commit_tarea" /\ pc'[w] = "delete_relaciones") =>
                /\ \E r \in tareas' : r.id = tarea'[w] /\ TieneValores(r, arg[w])
                /\ tareas_servicio' = tareas_servicio
           /\ (pc'[w] # pc[w] /\ tareas_servicio' # tareas_servicio) =>
                /\ pc[w] = "commit_relaciones"
                /\ \E r \in tareas : r.id = tarea[w]
                /\ \A sid \in Rango(arg[w].servicios) :
                     CopiesIn([tarea_id |-> tarea[w], servicio_id |-> sid],
                              tareas_servicio') = 1
                /\ \A r \in BagToSet(borradas[w]) :
                     r.servicio_id \notin Rango(arg[w].servicios) =>
                       CopiesIn(r, tareas_servicio') = 0
    ]_vars

\* The intermediate state of an update: the row already shows the new
\* values, which differ from those loaded, while the task's links are still
\* the previous ones and differ from the list being written.
C6_Testigo ==
  \E w \in Workers :
    /\ pc[w] = "commit_relaciones"
    /\ encontrada[w] # NoTarea
    /\ ~TieneValores(encontrada[w], arg[w])
    /\ \E r \in tareas : r.id = tarea[w] /\ TieneValores(r, arg[w])
    /\ RelacionesDe(tareas_servicio, tarea[w]) # EmptyBag
    /\ RelacionesDe(tareas_servicio, tarea[w]) = borradas[w]
    /\ RelacionesDe(tareas_servicio, tarea[w])
         # Relaciones(tarea[w], Dedup(arg[w].servicios))

\* C2: a call with a complete key leaves exactly one row for the key, which
\* carries the five values the call passed; the flag is true when the key had
\* no row (first call) and false when it had one (second call), and then the
\* row is the one that was there and no row is added.
C2_UpsertPorClave ==
  [][ \A w \in Workers :
        ( pc[w] = "commit_tarea" /\ pc'[w] # pc[w] /\ ClaveCompleta(arg[w]) ) =>
          LET antes == TareasDeClave(tareas, arg[w].carrier_id, arg[w].id_interno)
              despues == TareasDeClave(tareas', arg[w].carrier_id, arg[w].id_interno)
          IN /\ pc'[w] = "delete_relaciones"
             /\ Cardinality(despues) = 1
             /\ \A r \in despues : r.id = tarea'[w] /\ TieneValores(r, arg[w])
             /\ creada'[w] = (antes = {})
             /\ antes # {} => /\ { r.id : r \in antes } = { r.id : r \in despues }
                              /\ Cardinality(tareas') = Cardinality(tareas)
             /\ antes = {} => Cardinality(tareas') = Cardinality(tareas) + 1
    ]_vars

\* The second of two direct calls with the key (2, "ID1") has returned: it
\* loaded the row of the first with another description, left the flag
\* false, and the only row of the key shows the second call's values.
C2_Testigo ==
  \E w \in Workers :
    /\ pc[w] = "retorno" /\ correo[w] = NoCorreo
    /\ arg[w].carrier_id = 2 /\ arg[w].id_interno = "ID1"
    /\ encontrada[w] # NoTarea
    /\ encontrada[w].descripcion # arg[w].aviso.descripcion
    /\ ~creada[w]
    /\ Cardinality(TareasDeClave(tareas, 2, "ID1")) = 1
    /\ \A r \in TareasDeClave(tareas, 2, "ID1") :
         r.id = encontrada[w].id /\ TieneValores(r, arg[w])

\* C3: the second commit of a call with list S ends the call normally and
\* leaves the task with exactly one link per distinct id of S, and the links
\* of the other tasks as they were.
C3_RelacionesExactas ==
  [][ \A w \in Workers :
        ( pc[w] = "commit_relaciones" /\ pc'[w] # pc[w] ) =>
          /\ pc'[w] \in {"retorno", "post_upsert"}
          /\ RelacionesDe(tareas_servicio', tarea[w]) =
               SetToBag({ [tarea_id |-> tarea[w], servicio_id |-> sid] :
                            sid \in Rango(arg[w].servicios) })
          /\ \A r \in BagToSet(tareas_servicio) \cup BagToSet(tareas_servicio') :
               r.tarea_id # tarea[w] =>
                 CopiesIn(r, tareas_servicio') = CopiesIn(r, tareas_servicio)
    ]_vars

\* A call with a list that repeats an id has returned for a task that had
\* links: a previous link to an id outside the list is gone, an id of the
\* list that was not linked is linked, and the links are those of the list.
C3_Testigo ==
  \E w \in Workers :
    /\ pc[w] = "retorno"
    /\ Len(arg[w].servicios) > Cardinality(Rango(arg[w].servicios))
    /\ \E r \in BagToSet(borradas[w]) :
         /\ r.servicio_id \notin Rango(arg[w].servicios)
         /\ CopiesIn(r, tareas_servicio) = 0
    /\ \E sid \in Rango(arg[w].servicios) :
         /\ CopiesIn([tarea_id |-> tarea[w], servicio_id |-> sid], borradas[w]) = 0
         /\ CopiesIn([tarea_id |-> tarea[w], servicio_id |-> sid], tareas_servicio) = 1
    /\ { r.servicio_id : r \in BagToSet(RelacionesDe(tareas_servicio, tarea[w])) }
         = Rango(arg[w].servicios)

\* C5: a call without carrier_id or without id_interno never updates: its
\* first commit keeps every stored row as it was, adds one row with a new
\* id and sets the flag.
C5_SinClaveInserta ==
  [][ \A w \in Workers :
        ( pc[w] = "commit_tarea" /\ pc'[w] # pc[w] /\ ~ClaveCompleta(arg[w]) ) =>
          /\ pc'[w] = "delete_relaciones"
          /\ encontrada[w] = NoTarea
          /\ creada'[w]
          /\ tareas \subseteq tareas'
          /\ Cardinality(tareas') = Cardinality(tareas) + 1
          /\ \A r \in tareas : r.id # tarea'[w]
          /\ \E r \in tareas' : r.id = tarea'[w] /\ TieneValores(r, arg[w])
    ]_vars

\* The email without internal id has been processed twice: the second run
\* has returned with the flag set and the store holds two rows with the
\* email's values, one per run.
C5_Testigo ==
  \E w \in Workers :
    /\ pc[w] = "retorno"
    /\ correo[w] # NoCorreo /\ correo[w].texto = CorreoSinClave
    /\ ~ClaveCompleta(arg[w])
    /\ creada[w]
    /\ \E r1 \in tareas : \E r2 \in tareas :
         /\ r1.id # r2.id /\ r2.id = tarea[w]
         /\ TieneValores(r1, arg[w]) /\ TieneValores(r2, arg[w])
         /\ r1.carrier_id = r2.carrier_id /\ r1.id_interno = r2.id_interno

\* The fast path finds inicio, fin and servicios in the cleaned text.
RegexCompleto(c) ==
  LET limpio == _limpiar_correo(c.texto)
  IN Hay(limpio, "inicio") /\ Hay(limpio, "fin") /\ Hay(limpio, "servicios")

\* C7: while a run whose cleaned text has the three fields is in progress,
\* from its first step on, the completion service receives no request: the
\* run never waits for an answer and its count of requests stays 0.
C7_RegexSinGPT ==
  [][ \A w \in Workers :
        ( correo'[w] # NoCorreo /\ RegexCompleto(correo'[w]) ) =>
          /\ pc'[w] \notin {"gpt1", "gpt2"}
          /\ intentos'[w] = 0
          /\ respuesta'[w] = SinRespuesta
          /\ gpt_llamadas' = gpt_llamadas
    ]_vars

\* A fast-path run has stored its task and returned without any request.
C7_Testigo ==
  \E w \in Workers :
    /\ pc[w] = "retorno"
    /\ correo[w] # NoCorreo /\ RegexCompleto(correo[w])
    /\ datos[w] = _extraer_por_regex(_limpiar_correo(correo[w].texto))
    /\ \E r \in tareas : r.id = tarea[w]
    /\ intentos[w] = 0
    /\ gpt_llamadas = 0

\* C8: a run on a text lacking one of the three fields starts by asking the
\* completion service, and every answer a run receives, first or retry, is
\* a request the external service received: the counter grows by one per
\* answer and the answer cache is neither read nor written.
C8_SinCache ==
  [][ \A w \in Workers :
        /\ ( pc[w] = "idle" /\ correo'[w] # NoCorreo /\ ~RegexCompleto(correo'[w]) ) =>
              pc'[w] = "gpt1"
        /\ ( pc[w] \in {"gpt1", "gpt2"} /\ pc'[w] # pc[w] ) =>
              /\ gpt_llamadas' = gpt_llamadas + 1
              /\ gpt_cache' = gpt_cache
              /\ respuesta'[w] \in Respuestas
        /\ ( pc[w] = "gpt1" /\ pc'[w] = "extraido" ) => intentos'[w] = 1
    ]_vars

\* The text without services is processed for the second time and the
\* service answered the same valid JSON to the first request of both runs:
\* the first run stored its task, and the external service has received two
\* requests for two invocations.
C8_Testigo ==
  \E w \in Workers :
    /\ pc[w] = "extraido"
    /\ correo[w] # NoCorreo /\ correo[w].texto = CorreoSinServicios
    /\ llamadas = 2
    /\ intentos[w] = 1
    /\ respuesta[w].clase = "json"
    /\ \E r \in tareas :
         /\ r.id_interno = "SWX0000001"
         /\ r.tipo_tarea = respuesta[w].datos.tipo
         /\ r.descripcion = respuesta[w].datos.descripcion
         /\ r.fecha_inicio = _parse_fecha(respuesta[w].datos.inicio)
    /\ gpt_llamadas = 2

ErrorExtraccion == "No se pudo extraer la tarea del correo"

\* C9: the fallback is a two-attempt machine.  A run makes at most two
\* requests, and only while it waits for an answer; after the first answer
\* it waits for the retry exactly when that answer has no JSON part; a
\* retry answer without JSON part, or a JSON part the validation rejects,
\* ends the run in the failed state with the extraction error; a resolved
\* or failed run makes no further request.
C9_DosIntentos ==
  [][ \A w \in Workers :
        /\ intentos'[w] <= 2
        /\ ( intentos'[w] # intentos[w] /\ correo'[w] # NoCorreo ) =>
              /\ pc[w] \in {"gpt1", "gpt2"}
              /\ intentos'[w] = intentos[w] + 1
              /\ gpt_llamadas' = gpt_llamadas + 1
        /\ ( gpt_llamadas' # gpt_llamadas /\ pc'[w] # pc[w] ) =>
              pc[w] \in {"gpt1", "gpt2"}
        /\ ( pc[w] = "gpt1" /\ pc'[w] # pc[w] ) =>
              /\ intentos'[w] = 1
              /\ (pc'[w] = "gpt2") <=> (respuesta'[w].clase = "texto")
        /\ ( pc[w] = "gpt2" /\ pc'[w] # pc[w] ) =>
              /\ intentos'[w] = 2
              /\ respuesta'[w].clase = "texto" =>
                   (pc'[w] = "ValueError" /\ error'[w] = ErrorExtraccion)
        /\ ( pc[w] \in {"gpt1", "gpt2"} /\ pc'[w] # pc[w]
              /\ respuesta'[w].clase = "json invalido" ) =>
              (pc'[w] = "ValueError" /\ error'[w] = ErrorExtraccion)
        /\ ( pc[w] \in {"gpt1", "gpt2"} /\ pc'[w] # pc[w]
              /\ respuesta'[w].clase = "json" ) =>
              (pc'[w] = "extraido" /\ datos'[w] = respuesta'[w].datos)
        /\ pc[w] \in {"extraido", "ValueError"} => pc'[w] \notin {"gpt1", "gpt2"}
    ]_vars

\* A run failed after its retry: two requests were made and the last answer
\* had no JSON part.
C9_Testigo ==
  \E w \in Workers :
    /\ pc[w] = "ValueError" /\ error[w] = ErrorExtraccion
    /\ intentos[w] = 2
    /\ respuesta[w].clase = "texto"
    /\ gpt_llamadas >= 2

\* C10: a run whose extraction fails raises and writes nothing: from its
\* start to the failure no table changes, and no call of
\* crear_tarea_programada is begun.
C10_FalloSinEscritura ==
  [][ \A w \in Workers :
        /\ ( pc'[w] \in {"gpt1", "gpt2"}
              \/ (pc'[w] = "ValueError" /\ error'[w] = ErrorExtraccion) ) =>
              /\ store' = store
              /\ arg'[w] = NoArgs
        /\ ( pc[w] \in {"gpt1", "gpt2"} /\ pc'[w] # pc[w]
              /\ (respuesta'[w].clase # "json") ) =>
              (pc'[w] \in {"gpt2", "ValueError"} /\ datos'[w] = NoDatos)
        /\ ( pc[w] = "ValueError" /\ pc'[w] # pc[w] ) =>
              (pc'[w] = "idle" /\ store' = store)
    ]_vars

\* The first run on an empty store failed after the retry: the error is
\* raised and the store has no task, link, pending service or client, and
\* the carriers and services it started with.
C10_Testigo ==
  \E w \in Workers :
    /\ pc[w] = "ValueError" /\ error[w] = ErrorExtraccion
    /\ intentos[w] = 2
    /\ correo[w] # NoCorreo /\ ~RegexCompleto(correo[w])
    /\ datos[w] = NoDatos
    /\ llamadas = 1
    /\ tareas = {} /\ tareas_servicio = EmptyBag
    /\ servicios_pendientes = EmptyBag /\ clientes = {}
    /\ carriers = CarriersIniciales /\ servicios = ServiciosIniciales

\* C11: a run whose extracted start or end date cannot be parsed, or whose
\* start is not strictly before its end (equal included), fails with a
\* validation error in the step that examines the dates: no table changes
\* and no call of crear_tarea_programada is begun, and the failed run ends
\* without writing.
C11_FechasInvalidas ==
  [][ \A w \in Workers :
        /\ ( pc[w] = "extraido" /\ pc'[w] # pc[w]
              /\ ( ~FechaValida(datos[w].inicio) \/ ~FechaValida(datos[w].fin)
                    \/ datos[w].inicio.instante >= datos[w].fin.instante ) ) =>
              /\ pc'[w] = "ValueError"
              /\ error'[w] \in { "Fechas con formato invalido",
                                 "La fecha de inicio debe ser anterior al fin" }
              /\ ( ~FechaValida(datos[w].inicio) \/ ~FechaValida(datos[w].fin) ) <=>
                   error'[w] = "Fechas con formato invalido"
              /\ store' = store
              /\ arg'[w] = NoArgs
        /\ ( pc[w] = "ValueError" /\ pc'[w] # pc[w] ) => store' = store
    ]_vars

\* The first run on an empty store extracted a window that ends at the
\* instant it starts: the range error is raised and the store has no task,
\* link, pending row or client.
C11_Testigo ==
  \E w \in Workers :
    /\ pc[w] = "ValueError"
    /\ error[w] = "La fecha de inicio debe ser anterior al fin"
    /\ datos[w] # NoDatos
    /\ FechaValida(datos[w].inicio) /\ FechaValida(datos[w].fin)
    /\ datos[w].inicio.instante = datos[w].fin.instante
    /\ llamadas = 1
    /\ tareas = {} /\ tareas_servicio = EmptyBag
    /\ servicios_pendientes = EmptyBag /\ clientes = {}
    /\ carriers = CarriersIniciales /\ servicios = ServiciosIniciales

\* The run of worker w has passed the filter (its call of
\* crear_tarea_programada has begun or ended).
Filtrado(w) ==
  /\ correo[w] # NoCorreo
  /\ pc[w] \in {"commit_tarea", "delete_relaciones", "commit_relaciones",
                "post_upsert", "retorno"}

EsLetra(c) == c \in {"A", "B", "C", "N", "O", "R", "S", "T", "V"}

\* Three letters, a dash and six digits.
TresLetrasGuionSeisDigitos(i) ==
  /\ Len(i) = 10
  /\ \A k \in 1..3 : EsLetra(i[k])
  /\ i[4] = "-"
  /\ \A k \in 5..10 : EsDigito(i[k])

\* The letters CRT, a dash and six digits.
CRTGuionSeisDigitos(i) ==
  TresLetrasGuionSeisDigitos(i) /\ SubSeq(i, 1, 3) = <<"C", "R", "T">>

\* C12 (as claimed): with a carrier name equal to TELXIUS whatever its case,
\* an identifier survives the filter if and only if it is three letters, a
\* dash and six digits, and is recorded as discarded otherwise.
C12_TresLetras ==
  \A w \in Workers :
    ( Filtrado(w) /\ EsTelxius(CarrierNombre(correo[w])) ) =>
      LET brutos == IdsBrutos(correo[w], datos[w])
          nombre == CarrierNombre(correo[w])
      IN \A k \in 1..Len(brutos) :
           /\ brutos[k] \in Rango(Filtrados(brutos, nombre))
                <=> TresLetrasGuionSeisDigitos(brutos[k])
           /\ brutos[k] \in Rango(Descartados(brutos, nombre))
                <=> ~TresLetrasGuionSeisDigitos(brutos[k])

\* C12 (amended): with a carrier name equal to TELXIUS whatever its case, an
\* identifier survives the filter if and only if it is the letters CRT, a
\* dash and six digits; every other identifier is recorded as discarded,
\* and the services handed to crear_tarea_programada are those the
\* surviving identifiers resolve to.
C12_SoloCRT ==
  \A w \in Workers :
    ( Filtrado(w) /\ EsTelxius(CarrierNombre(correo[w])) ) =>
      LET brutos == IdsBrutos(correo[w], datos[w])
          nombre == CarrierNombre(correo[w])
      IN /\ \A k \in 1..Len(brutos) :
              /\ brutos[k] \in Rango(Filtrados(brutos, nombre))
                   <=> CRTGuionSeisDigitos(brutos[k])
              /\ brutos[k] \in Rango(Descartados(brutos, nombre))
                   <=> ~CRTGuionSeisDigitos(brutos[k])
         /\ arg[w].servicios =
              ServiciosResueltos(servicios, SelectSeq(brutos, CRTGuionSeisDigitos))

\* A run with carrier name "Telxius" on the identifiers CRT-000123 and
\* 76208 has returned: only the first survived, the second was discarded.
C12_Testigo ==
  \E w \in Workers :
    /\ Filtrado(w) /\ pc[w] = "retorno"
    /\ correo[w].carrier_nombre = "Telxius"
    /\ datos[w].ids = <<IdCRT000123, Id76208>>
    /\ Filtrados(IdsBrutos(correo[w], datos[w]), CarrierNombre(correo[w]))
         = <<IdCRT000123>>
    /\ Id76208 \in Rango(Descartados(IdsBrutos(correo[w], datos[w]),
                                      CarrierNombre(correo[w])))
    /\ arg[w].servicios = <<1>>

\* Purely numeric: at least one character and only digits.
EsNumerico(i) == Len(i) > 0 /\ \A k \in 1..Len(i) : i[k] \in Digitos

\* Exactly four digits, or purely numeric with fewer than six digits.
NumeroCorto(i) == (EsNumerico(i) /\ Len(i) = 4) \/ (EsNumerico(i) /\ Len(i) < 6)

NoEsNumeroCorto(i) == ~NumeroCorto(i)

\* C13: with no carrier or a carrier other than TELXIUS, an identifier is
\* recorded as discarded if and only if it is exactly four digits or purely
\* numeric with fewer than six digits, and is kept otherwise; the services
\* handed to crear_tarea_programada are those the kept identifiers resolve
\* to.
C13_NumerosCortos ==
  \A w \in Workers :
    ( Filtrado(w) /\ ~EsTelxius(CarrierNombre(correo[w])) ) =>
      LET brutos == IdsBrutos(correo[w], datos[w])
          nombre == CarrierNombre(correo[w])
      IN /\ \A k \in 1..Len(brutos) :
              /\ brutos[k] \in Rango(Descartados(brutos, nombre))
                   <=> NumeroCorto(brutos[k])
              /\ brutos[k] \in Rango(Filtrados(brutos, nombre))
                   <=> ~NumeroCorto(brutos[k])
         /\ arg[w].servicios =
              ServiciosResueltos(servicios, SelectSeq(brutos, NoEsNumeroCorto))

\* A run without carrier override on the identifiers 123456, 1234 and SRV9
\* has returned: 1234 was discarded, 123456 and SRV9 were kept, and so was
\* discarded every two-digit number of the dates.
C13_Testigo ==
  \E w \in Workers :
    /\ Filtrado(w) /\ pc[w] = "retorno"
    /\ correo[w].carrier_nombre = None
    /\ datos[w].ids = <<Id123456, Id1234, IdSRV9>>
    /\ Filtrados(IdsBrutos(correo[w], datos[w]), CarrierNombre(correo[w]))
         = <<Id123456, IdSRV9>>
    /\ Id1234 \in Rango(Descartados(IdsBrutos(correo[w], datos[w]),
                                     CarrierNombre(correo[w])))
    /\ <<"0", "1">> \in Rango(Descartados(IdsBrutos(correo[w], datos[w]),
                                          CarrierNombre(correo[w])))
    /\ arg[w].servicios = <<123456>>

\* The identifier is the primary key of one service and the carrier code
\* of another.
ClaveYCodigo(S, i) ==
  /\ EsNumerico(i)
  /\ \E r \in S : r.id = int(i)
  /\ \E r \in S : r.id # int(i) /\ r.id_carrier = i

\* C14 (as claimed): every purely numeric identifier of the email that is
\* the primary key of one service and the carrier code of another is
\* resolved to the service with that primary key, and once the run has
\* returned the task is linked to that service and not to the other.
C14_ClavePrimariaGana ==
  \A w \in Workers :
    Filtrado(w) =>
      LET brutos == IdsBrutos(correo[w], datos[w])
      IN \A k \in 1..Len(brutos) :
           ClaveYCodigo(servicios, brutos[k]) =>
             /\ int(brutos[k]) \in Rango(arg[w].servicios)
             /\ pc[w] = "retorno" =>
                  CopiesIn([tarea_id |-> tarea[w], servicio_id |-> int(brutos[k])],
                           tareas_servicio) = 1

\* The services with primary key int(x), for a purely numeric x, and the
\* services whose carrier code is x.
PorClave(S, x) == IF EsNumerico(x) THEN { r \in S : r.id = int(x) } ELSE {}
PorCodigo(S, x) == { r \in S : r.id_carrier = x }

\* The digits of an identifier, in order.
RECURSIVE Digitos_de(_)
Digitos_de(i) ==
  IF i = <<>> THEN <<>>
  ELSE IF Head(i) \in Digitos THEN <<Head(i)>> \o Digitos_de(Tail(i))
  ELSE Digitos_de(Tail(i))

\* C15: a surviving identifier that matches no service by primary key or by
\* verbatim carrier code is tried again with its digits alone, when it has
\* any: a primary-key match of the digits resolves it, else a carrier-code
\* match of the digits resolves it, and it is not pending; only when the
\* digits match nothing, or there are none, the identifier as written is
\* pending, and the finished run has stored a pending row with it.
C15_ReintentoConDigitos ==
  \A w \in Workers :
    Filtrado(w) =>
      LET ids == Filtrados(IdsBrutos(correo[w], datos[w]), CarrierNombre(correo[w]))
      IN \A k \in 1..Len(ids) :
           LET i == ids[k]
               dig == Digitos_de(i)
           IN ( PorClave(servicios, i) = {} /\ PorCodigo(servicios, i) = {} ) =>
                IF dig # <<>> /\ PorClave(servicios, dig) # {}
                THEN /\ int(dig) \in Rango(arg[w].servicios)
                     /\ i \notin Rango(ids_pendientes(w))
                ELSE IF dig # <<>> /\ PorCodigo(servicios, dig) # {}
                THEN /\ \E r \in PorCodigo(servicios, dig) :
                          r.id \in Rango(arg[w].servicios)
                     /\ i \notin Rango(ids_pendientes(w))
                ELSE /\ i \in Rango(ids_pendientes(w))
                     /\ pc[w] = "retorno" =>
                          CopiesIn([tarea_id |-> tarea[w], id_carrier |-> i],
                                   servicios_pendientes) >= 1

\* A run has returned whose surviving identifiers were ABC-000123, resolved
\* by the primary key 123 of its digits, SRV7, resolved by the carrier code
\* "7" of its digit, and NOC, without digits and pending as written.
C15_Testigo ==
  \E w \in Workers :
    /\ Filtrado(w) /\ pc[w] = "retorno"
    /\ datos[w].ids = <<Id123456, IdSRV9, IdABC000123, IdNOC, IdSRV7>>
    /\ arg[w].servicios = <<123456, 123, 4>>
    /\ IdNOC \in Rango(ids_pendientes(w))
    /\ CopiesIn([tarea_id |-> tarea[w], servicio_id |-> 123], tareas_servicio) = 1
    /\ CopiesIn([tarea_id |-> tarea[w], servicio_id |-> 4], tareas_servicio) = 1
    /\ CopiesIn([tarea_id |-> tarea[w], id_carrier |-> IdNOC], servicios_pendientes) = 1

\* The service with primary key sid is one the identifier i can resolve to:
\* by primary key or carrier code, of i or of its digits.
Coincide(S, i, sid) ==
  \E r \in PorClave(S, i) \cup PorCodigo(S, i)
           \cup PorClave(S, Digitos_de(i)) \cup PorCodigo(S, Digitos_de(i)) :
    r.id = sid

\* C16: the resolved sequence and the pending sequence of a run partition
\* its surviving identifiers: an identifier that matches some service
\* yields one entry of the resolved sequence, one that matches none yields
\* one entry of the pending sequence, each at the position its order among
\* the identifiers of its kind gives it, and there are no other entries.
\* The pending sequence (pendientes) is the one the run returns.
C16_Particion ==
  \A w \in Workers :
    Filtrado(w) =>
      LET ids == Filtrados(IdsBrutos(correo[w], datos[w]), CarrierNombre(correo[w]))
          P == { k \in 1..Len(ids) : \A r \in servicios : ~Coincide(servicios, ids[k], r.id) }
          R == (1..Len(ids)) \ P
          Puesto(K, k) == Cardinality({ j \in K : j <= k })
      IN /\ Len(arg[w].servicios) = Cardinality(R)
         /\ Len(pendientes[w]) = Cardinality(P)
         /\ \A k \in P : pendientes[w][Puesto(P, k)] = ids[k]
         /\ \A k \in R : Coincide(servicios, ids[k], arg[w].servicios[Puesto(R, k)])

\* A run has returned whose five surviving identifiers alternate: the
\* first, third and fifth resolved, the second and fourth pending, each
\* sequence in the order of the email.
C16_Testigo ==
  \E w \in Workers :
    /\ Filtrado(w) /\ pc[w] = "retorno"
    /\ Filtrados(IdsBrutos(correo[w], datos[w]), CarrierNombre(correo[w]))
         = <<Id123456, IdSRV9, IdABC000123, IdNOC, IdSRV7>>
    /\ arg[w].servicios = <<123456, 123, 4>>
    /\ pendientes[w] = <<IdSRV9, IdNOC>>

\* How many entries of the sequence equal x.
Veces(lista, x) == Cardinality({ k \in 1..Len(lista) : lista[k] = x })

\* C17: the step that ends a successful run adds to servicios_pendientes
\* one row per entry of the run's pending list, tied to the run's task, on
\* top of the rows already stored, and no step removes a pending row.
C17_PendientesAcumulados ==
  [][ /\ \A r \in BagToSet(servicios_pendientes) :
           CopiesIn(r, servicios_pendientes') >= CopiesIn(r, servicios_pendientes)
      /\ \A w \in Workers :
           /\ ( pc[w] = "post_upsert" /\ pc'[w] # pc[w] ) =>
                /\ pc'[w] = "retorno"
                /\ \A r \in BagToSet(servicios_pendientes')
                              \cup BagToSet(servicios_pendientes) :
                     CopiesIn(r, servicios_pendientes') =
                       CopiesIn(r, servicios_pendientes)
                       + (IF r.tarea_id = tarea[w]
                          THEN Veces(pendientes[w], r.id_carrier) ELSE 0)
                /\ \A k \in 1..Len(pendientes[w]) :
                     CopiesIn([tarea_id |-> tarea[w], id_carrier |-> pendientes[w][k]],
                              servicios_pendientes') >= 1
           /\ ( pc'[w] # pc[w] /\ pc[w] # "post_upsert" ) =>
                servicios_pendientes' = servicios_pendientes
    ]_vars

\* The same email was processed twice against the same task (the second
\* run updated the row): the task has two pending rows for the identifier
\* the email leaves unresolved.
C17_Testigo ==
  \E w \in Workers :
    /\ pc[w] = "retorno" /\ correo[w] # NoCorreo
    /\ correo[w].texto = CorreoCompleto
    /\ llamadas = 2
    /\ ~creada[w]
    /\ pendientes[w] = <<IdSRV9>>
    /\ CopiesIn([tarea_id |-> tarea[w], id_carrier |-> IdSRV9],
                servicios_pendientes) = 2

\* C18: the step that ends a successful run with a resolved carrier leaves
\* every service matched in the run with that carrier's id and name,
\* whatever carrier it had, and the other services as they were; without a
\* resolved carrier it changes no service; no step of the pipeline adds or
\* removes a service or changes anything else in one.
C18_CarrierDeServicios ==
  [][ /\ { [id |-> r.id, id_carrier |-> r.id_carrier] : r \in servicios' }
           = { [id |-> r.id, id_carrier |-> r.id_carrier] : r \in servicios }
      /\ Cardinality(servicios') = Cardinality(servicios)
      /\ \A w \in Workers :
           /\ ( pc[w] = "post_upsert" /\ pc'[w] # pc[w] /\ arg[w].carrier_id # NULLID ) =>
                /\ pc'[w] = "retorno"
                /\ \E c \in carriers :
                     /\ c.id = arg[w].carrier_id
                     /\ \A r \in servicios' :
                          IF r.id \in Rango(arg[w].servicios)
                          THEN r.carrier_id = c.id /\ r.carrier = c.nombre
                          ELSE r \in servicios
           /\ ( pc[w] = "post_upsert" /\ pc'[w] # pc[w] /\ arg[w].carrier_id = NULLID ) =>
                servicios' = servicios
           /\ ( pc'[w] # pc[w] /\ pc[w] # "post_upsert" ) => servicios' = servicios
    ]_vars

\* A run with carrier lumen has returned: service 123456, which belonged
\* to carrier TELXIUS when the behaviour started, now belongs to lumen, and
\* service 123, not matched, is as it was.
C18_Testigo ==
  \E w \in Workers :
    /\ pc[w] = "retorno" /\ correo[w] # NoCorreo
    /\ arg[w].carrier_id = 1
    /\ 123456 \in Rango(arg[w].servicios)
    /\ \E r \in ServiciosIniciales :
         r.id = 123456 /\ r.carrier_id = 2 /\ r.carrier = "TELXIUS"
    /\ \E r \in servicios :
         r.id = 123456 /\ r.carrier_id = 1 /\ r.carrier = "lumen"
    /\ 123 \notin Rango(arg[w].servicios)
    /\ \E r \in servicios : r.id = 123 /\ r \in ServiciosIniciales

\* At most one row of the table has each name.
NombreUnico(T) == \A r1 \in T : \A r2 \in T : r1.nombre = r2.nombre => r1.id = r2.id

\* The table T becomes T2 by lookup-or-create of the name: unchanged when a
\* row has the name, one row with the name added otherwise.
BuscadoOCreado(T, T2, nombre) ==
  IF \E r \in T : r.nombre = nombre
  THEN T2 = T
  ELSE /\ T \subseteq T2
       /\ Cardinality(T2) = Cardinality(T) + 1
       /\ \E r \in T2 \ T : r.nombre = nombre /\ \A q \in T : q.id # r.id

\* C19: clientes and carriers never hold two rows with one name.  The step
\* of a run that reaches the store reuses the client with exactly the
\* run's client name, or adds it when there is none, and does the same for
\* the carrier when the run has a carrier name, whose row's id is the one
\* handed to crear_tarea_programada; without a carrier name carriers is
\* left alone, and no other step changes either table.
C19_BuscarOCrear ==
  [][ /\ NombreUnico(clientes) /\ NombreUnico(clientes')
      /\ NombreUnico(carriers) /\ NombreUnico(carriers')
      /\ \A w \in Workers :
           /\ ( pc[w] = "extraido" /\ pc'[w] = "commit_tarea" ) =>
                /\ BuscadoOCreado(clientes, clientes', correo[w].cliente_nombre)
                /\ IF CarrierNombre(correo[w]) \in {None, ""}
                   THEN carriers' = carriers /\ arg'[w].carrier_id = NULLID
                   ELSE /\ BuscadoOCreado(carriers, carriers', CarrierNombre(correo[w]))
                        /\ \E c \in carriers' :
                             /\ c.nombre = CarrierNombre(correo[w])
                             /\ c.id = arg'[w].carrier_id
           /\ ( pc'[w] # pc[w] /\ ~(pc[w] = "extraido" /\ pc'[w] = "commit_tarea") ) =>
                (clientes' = clientes /\ carriers' = carriers)
    ]_vars

\* Two runs named the client ACME and the carrier "Telxius": the second
\* reused the rows the first created, so there is one ACME client, and the
\* "Telxius" carrier, a row of its own beside the "TELXIUS" one, has two
\* tasks.
C19_Testigo ==
  \E w \in Workers :
    /\ pc[w] = "retorno" /\ correo[w] # NoCorreo
    /\ llamadas = 2
    /\ correo[w].carrier_nombre = "Telxius"
    /\ Cardinality({ r \in clientes : r.nombre = "ACME" }) = 1
    /\ Cardinality(carriers) = Cardinality(CarriersIniciales) + 1
    /\ \E c \in carriers \ CarriersIniciales :
         /\ c.nombre = "Telxius"
         /\ c.id = arg[w].carrier_id
         /\ Cardinality({ r \in tareas : r.carrier_id = c.id }) = 2

\* The run of worker w has extracted its data.
Extraido(w) == Filtrado(w) \/ (correo[w] # NoCorreo /\ pc[w] = "extraido")

\* C20 (as claimed): the raw identifier list of a run is the extractor's
\* identifiers followed by the sniffer's identifiers that are not among
\* them, and no identifier value occurs twice in it.
C20_FusionSinRepetidos ==
  \A w \in Workers :
    Extraido(w) =>
      LET brutos == IdsBrutos(correo[w], datos[w])
          det == _detectar_datos_correo(_limpiar_correo(correo[w].texto)).ids
          Nuevo(x) == \A k \in 1..Len(datos[w].ids) : datos[w].ids[k] # x
      IN /\ brutos = datos[w].ids \o SelectSeq(det, Nuevo)
         /\ \A j \in 1..Len(brutos) : \A k \in 1..Len(brutos) :
              brutos[j] = brutos[k] => j = k

\* C21: when a successful run has returned, every identifier of its merged
\* raw list is accounted for in exactly one of three ways: it is in the
\* logged list of discarded identifiers; or it resolved to a service the
\* task is linked to; or it was logged as not found and the task has a
\* pending row with it.
C21_SinPerdida ==
  \A w \in Workers :
    ( Filtrado(w) /\ pc[w] = "retorno" ) =>
      LET brutos == IdsBrutos(correo[w], datos[w])
      IN \A k \in 1..Len(brutos) :
           LET i == brutos[k]
               descartado == i \in Rango(registro[w].descartados)
               enlazado ==
                 \E r \in servicios :
                   /\ Coincide(servicios, i, r.id)
                   /\ r.id \in Rango(arg[w].servicios)
                   /\ CopiesIn([tarea_id |-> tarea[w], servicio_id |-> r.id],
                               tareas_servicio) = 1
               pendiente ==
                 /\ i \in Rango(registro[w].no_encontrados)
                 /\ CopiesIn([tarea_id |-> tarea[w], id_carrier |-> i],
                             servicios_pendientes) >= 1
           IN /\ descartado \/ enlazado \/ pendiente
              /\ ~(descartado /\ pendiente)
              /\ ~(pendiente /\ enlazado)
              /\ descartado => i \notin Rango(pendientes[w])

\* A run has returned whose raw list had identifiers of the three kinds:
\* 1234 discarded and logged, 123456 linked, SRV9 logged and pending.
C21_Testigo ==
  \E w \in Workers :
    /\ Filtrado(w) /\ pc[w] = "retorno"
    /\ datos[w].ids = <<Id123456, Id1234, IdSRV9>>
    /\ Id1234 \in Rango(registro[w].descartados)
    /\ CopiesIn([tarea_id |-> tarea[w], servicio_id |-> 123456], tareas_servicio) = 1
    /\ IdSRV9 \in Rango(registro[w].no_encontrados)
    /\ CopiesIn([tarea_id |-> tarea[w], id_carrier |-> IdSRV9],
                servicios_pendientes) >= 1

C24_DepuraReclamos ==
  [][ depurado'.n # depurado.n =>
        /\ reclamos' \subseteq reclamos
        /\ \A r \in reclamos :
             r \in reclamos' <=>
               \A y \in reclamos : y.numero = r.numero => y.id <= r.id
        /\ depurado'.eliminados = Cardinality(reclamos) - Cardinality(reclamos')
        /\ \A x \in reclamos' : \A y \in reclamos' :
             x.numero = y.numero => x.id = y.id ]_vars

\* A run removed a row: the number R1 was held by a row of each service,
\* the one of highest id is left, with a row of another number.
C24_Testigo ==
  /\ depurado.n = 1
  /\ depurado.eliminados = 1
  /\ \E x \in reclamos : x.numero = "R1" /\ x.id = 2
  /\ \E y \in reclamos : y.numero = "R2"
  /\ Cardinality(reclamos) = 2

SinRepetidos(lista) ==
  \A i \in 1..Len(lista) : \A j \in 1..Len(lista) : lista[i] = lista[j] => i = j

\* C25: after any sequence of agregar_destinatario and
\* eliminar_destinatario calls no address occurs twice in a list (the
\* general one or a carrier's); a call of agregar_destinatario with an
\* address already in the list leaves the stored lists as they were; a
\* call for the id of no client returns False and stores nothing.
C25_SinRepetidos ==
  [][ /\ \A c \in ClientesDest :
           /\ SinRepetidos(destinatarios'[c].general)
           /\ \A k \in CarriersDest : SinRepetidos(destinatarios'[c].carrier[k])
      /\ ( /\ ultima'.op = "agregar"
           /\ ultima'.correo \in
                Rango(cargar_destinatarios(ultima'.cliente_id, ultima'.carrier)) )
           => destinatarios' = destinatarios
      /\ ( ultima'.op # None /\ ~ExisteCliente(ultima'.cliente_id) )
           => ( ~ultima'.retorno /\ destinatarios' = destinatarios ) ]_vars

\* An address was added again to the carrier list that has it, after an
\* address was removed from the general list: both lists are whole.
C25_Testigo ==
  /\ ultima.op = "agregar" /\ ultima.carrier = "Telxius" /\ ultima.retorno
  /\ ultima.correo = "a@x.com"
  /\ destinatarios[1].carrier["Telxius"] = <<"b@x.com", "a@x.com">>
  /\ destinatarios[1].general = <<"c@x.com">>
  /\ destinatarios[2] = SinDestinatarios

\* C26 as stated: the text message_handler receives is the transcription.
C26_TextoTranscrito ==
  \A i \in 1..Len(eventos) :
    eventos[i].llamada = "message_handler" =>
      eventos[i].texto = updates[eventos[i].update].transcripcion.text

\* C26: for every update voice_handler is done with, the calls it made
\* are: message_handler once, with the text set to the transcription
\* without the whitespace at its ends, when the transcription succeeded;
\* one failure reply and no message_handler when it raised; none when the
\* update had no message or no voice (or the download failed); and no call
\* is made before the transcription ends.
C26_UnaEntrega ==
  \A k \in 1..Len(updates) :
    LET u == updates[k]
        hechos == SelectSeq(eventos, LAMBDA e : e.update = k)
        transcribe == u.mensaje /\ u.voice /\ u.descarga
        acabado == k < Len(updates) \/ voz_pc = "idle"
    IN IF ~acabado \/ ~transcribe THEN hechos = <<>>
       ELSE IF u.transcripcion.clase = "texto"
       THEN hechos = << [update |-> k, llamada |-> "message_handler",
                         texto |-> strip(u.transcripcion.text)] >>
       ELSE /\ Len(hechos) = 1
            /\ hechos[1].llamada = "responder_registrando"

\* Three updates were handled: one without voice, one whose transcription
\* raised, one transcribed as " si " and handed over as "si".
C26_Testigo ==
  /\ Len(updates) = 3 /\ voz_pc = "idle"
  /\ ~updates[1].voice
  /\ updates[2].voice /\ updates[2].transcripcion.clase = "excepcion"
  /\ updates[3].transcripcion.text = <<" ", "s", "i", " ">>
  /\ Len(eventos) = 2
  /\ eventos[1].llamada = "responder_registrando" /\ eventos[1].update = 2
  /\ eventos[2] = [update |-> 3, llamada |-> "message_handler", texto |-> <<"s", "i">>]

\* C28 (as claimed): when two concurrent calls for the same stored task
\* have both ended, neither ended with the IntegrityError of
\* uix_tarea_servicio and the task's links are exactly the list of one of
\* the calls, never a mixture or the union of both.
C28_UnaListaCompleta ==
  \A w \in Workers : \A v \in Workers \ {w} :
    ( /\ pc[w] \in {"retorno", "IntegrityError"}
      /\ pc[v] \in {"retorno", "IntegrityError"}
      /\ encontrada[w] # NoTarea /\ encontrada[v] # NoTarea
      /\ tarea[w] = tarea[v] ) =>
        /\ pc[w] = "retorno" /\ pc[v] = "retorno"
        /\ \/ RelacionesDe(tareas_servicio, tarea[w])
                = Relaciones(tarea[w], Dedup(arg[w].servicios))
           \/ RelacionesDe(tareas_servicio, tarea[w])
                = Relaciones(tarea[w], Dedup(arg[v].servicios))

C29_IntegridadReferencial ==
  /\ \A r \in BagToSet(tareas_servicio) : \E t \in tareas : t.id = r.tarea_id
  /\ \A r \in BagToSet(servicios_pendientes) : \E t \in tareas : t.id = r.tarea_id
  /\ \A w \in Workers :
       ( correo[w] # NoCorreo /\ pc[w] \in {"post_upsert", "retorno"} ) =>
         \A r \in BagToSet(RelacionesDe(tareas_servicio, tarea[w])) :
           \E x \in servicios : x.id = r.servicio_id

\* After the duplicates were removed, a pipeline run wrote links and a
\* pending row for the kept task, which also has the rows re-pointed to it.
C29_Testigo ==
  /\ migracion = "depurado" /\ esquema = Restricciones
  /\ correo["w1"] # NoCorreo /\ pc["w1"] = "retorno"
  /\ tarea["w1"] = 1
  /\ RelacionesDe(tareas_servicio, 1) # EmptyBag
  /\ CopiesIn([tarea_id |-> 1, id_carrier |-> IdSRV9], servicios_pendientes) >= 2
  /\ \A t \in tareas : t.id \notin {2, 3}

\* C30 (as claimed): eliminar_duplicados_tareas leaves no two rows of
\* tareas_servicio with the same task and service, also when the kept task
\* and a removed duplicate were linked to the same service, and it ends.
C30_ParesUnicos ==
  /\ ~ParRepetido(tareas_servicio)
  /\ ( migracion = "IntegrityError" => "uix_carrier_interno" \in esquema )

====
